---- MODULE Spec2Model ----
(***************************************************************************)
(* A model of the Flipkart purchase-order downloader:                      *)
(*   src/src/tasks/flipkart/download-po.js  (FlipkartDownloadPOTask)       *)
(*                                                                         *)
(*   src/src/utils/xls-merger.js            (flattenAndMergePoFiles,       *)
(*                                           BaseTask)                     *)
(*   src/src/tasks/flipkart/login-and-download-po.js                       *)
(*                                                                         *)
(* The specifications defined:                                             *)
(*   SpecHasNext  hasNextPage() applied to bounded page texts and          *)
(*                next-page-control candidates;                            *)
(*   Spec         run() / downloadAllPOsAcrossPages() /                    *)
(*                downloadPOsFromCurrentPage() / goToNextPage() against a  *)
(*                nondeterministic browser;                                *)
(*   FairSpec     Spec under the scheduling of the event loop;             *)
(*   SpecMerge    flattenAndMergePoFiles() applied to bounded lists of     *)
(*                documents;                                               *)
(*   SpecWaitForElement  BaseTask.waitForElement() applied to bounded      *)
(*                lists of selectors;                                      *)
(*   SpecExecute  BaseTask.execute() of the combined task, with the list   *)
(*                of artifacts as an input;                                *)
(*   SpecGoNext   one call of goToNextPage(), approach by approach;        *)
(*   SpecTotalCount  getTotalPOCount() applied to bounded page texts;      *)
(*   SpecRowDiscovery  the row discovery of downloadPOsFromCurrentPage();  *)
(*   SpecFilename  the names combineFiles() gives the merged file over     *)
(*                time;                                                    *)
(*   SpecTwin     downloadAllPOsAcrossPages() run twice on the same pages  *)
(*                with different totals.                                   *)
(***************************************************************************)
EXTENDS Integers, Sequences, FiniteSets, TLC

(***************************************************************************)
(* Bounds of the model.                                                    *)
(***************************************************************************)
\* fragments a page text is composed of (SpecHasNext)
MaxFrags == 2
\* next-page-control candidates that match an element (SpecHasNext)
MaxCands == 2
\* pages of the list (Spec)
MaxPages == 2
\* data rows of the whole list (Spec)
MaxTotalRows == 3
\* largest maxOrders tried (Spec)
MaxLimit == 2
\* documents in one merge
MaxDocs == 3
MaxStrategies == 3
MaxFiles == 2

(***************************************************************************)
(* Page text.  The body text is a sequence of whitespace-separated tokens; *)
(* a number token carries its decimal digits, which parseInt converts.     *)
(***************************************************************************)
Tok(kind, digits) == [k |-> kind, d |-> digits]

NumTok(digits) == Tok("num", digits)

WordTok(kind) == Tok(kind, <<>>)

\* parseInt(s, 10) on a string of decimal digits
RECURSIVE ParseInt(_)
ParseInt(digits) ==
  IF Len(digits) = 0 THEN 0
  ELSE 10 * ParseInt(SubSeq(digits, 1, Len(digits) - 1)) + digits[Len(digits)]

\* /(\d+)\s+of\s+(\d+)\s+pages/i
PagesPattern == <<"num", "of", "num", "pages">>

\* /(\d+)\s*[-–]\s*(\d+)\s+of\s+(\d+)/i
RangePattern == <<"num", "dash", "num", "of", "num">>

\* /Page\s+(\d+)\s+of\s+(\d+)/i
PagePattern == <<"page", "num", "of", "num">>

\* String.prototype.match found nothing
NoMatch == 0

MatchAt(txt, i, pat) ==
  /\ i + Len(pat) - 1 <= Len(txt)
  /\ \A j \in 1..Len(pat) : txt[i + j - 1].k = pat[j]

\* index of the leftmost match of pat in txt (match without the g flag)
MatchIndex(txt, pat) ==
  IF \E i \in 1..Len(txt) : MatchAt(txt, i, pat)
  THEN CHOOSE i \in 1..Len(txt) :
         /\ MatchAt(txt, i, pat)
         /\ \A j \in 1..(i - 1) : ~MatchAt(txt, j, pat)
  ELSE NoMatch

\* the k-th capture group of a match at index i: the k-th number token
RECURSIVE GroupPos(_, _, _)
GroupPos(pat, k, from) ==
  IF pat[from] = "num"
  THEN IF k = 1 THEN from ELSE GroupPos(pat, k - 1, from + 1)
  ELSE GroupPos(pat, k, from + 1)

Group(txt, i, pat, k) == ParseInt(txt[i + GroupPos(pat, k, 1) - 1].d)

(***************************************************************************)
(* hasNextPage(): text patterns first, next-page controls as a fallback.   *)
(***************************************************************************)
\* currentPage < totalPages of the "X of Y pages" pattern
PagesHasMore(currentPage, totalPages) == currentPage < totalPages

\* a variant comparing with <= instead of <
RangeHasMoreLe(endItem, totalItems) == endItem <= totalItems

\* endItem < totalItems of the "A-B of C" pattern
RangeHasMore(endItem, totalItems) == endItem < totalItems

\* currentPage < totalPages of the "Page X of Y" pattern
PageHasMore(currentPage, totalPages) == currentPage < totalPages

\* the outcomes of one candidate selector of nextButtonSelectors:
\*   hidden     isVisible() is false (or rejected: .catch(() => false))
\*   enabled    visible, the disabled check evaluates to false
\*   disabled   visible, the disabled check evaluates to true
\*   evalFails  visible, button.evaluate() rejects
CandStates == {"hidden", "enabled", "disabled", "evalFails"}

CandVisible(c) == c # "hidden"

\* button.evaluate(el => el.disabled || ...).catch(() => false)
CandIsDisabled(c) == IF c = "evalFails" THEN FALSE ELSE c = "disabled"

\* the for-loop over nextButtonSelectors
NextButtonFound(cands) ==
  \E i \in 1..Len(cands) : CandVisible(cands[i]) /\ ~CandIsDisabled(cands[i])

\* the try block: the verdict of the text, "none" when it falls through
TextVerdict(readable, txt) ==
  IF ~readable THEN [by |-> "none", ret |-> FALSE]
  ELSE
    LET pagesMatch == MatchIndex(txt, PagesPattern)
        rangeMatch == MatchIndex(txt, RangePattern)
        pageMatch  == MatchIndex(txt, PagePattern)
    IN  IF pagesMatch # NoMatch
        THEN [by |-> "pages",
              ret |-> PagesHasMore(Group(txt, pagesMatch, PagesPattern, 1),
                                   Group(txt, pagesMatch, PagesPattern, 2))]
        ELSE IF rangeMatch # NoMatch
        THEN [by |-> "range",
              ret |-> RangeHasMore(Group(txt, rangeMatch, RangePattern, 2),
                                   Group(txt, rangeMatch, RangePattern, 3))]
        ELSE IF pageMatch # NoMatch
                /\ PageHasMore(Group(txt, pageMatch, PagePattern, 1),
                               Group(txt, pageMatch, PagePattern, 2))
        THEN [by |-> "page", ret |-> TRUE]
        ELSE [by |-> "none", ret |-> FALSE]

\* hasNextPage(): ret is the value returned, by the signal that decided,
\* fallback whether the next-page controls were consulted
HasNextPage(readable, txt, cands) ==
  LET v == TextVerdict(readable, txt)
  IN  IF v.by # "none"
      THEN [ret |-> v.ret, by |-> v.by, fallback |-> FALSE]
      ELSE [ret |-> NextButtonFound(cands), by |-> "button", fallback |-> TRUE]

(***************************************************************************)
(* State.                                                                  *)
(***************************************************************************)
VARIABLES
  \* hasNextPage() on its own (SpecHasNext)
  hnFrags,      \* the fragments the page text was composed of
  hnReadable,   \* whether locator('body').textContent() yields a string
  hnText,       \* the body text, as tokens
  hnCands,      \* outcomes of the candidate selectors that match an element
  hnOut,        \* what hasNextPage() returned, NotCalled before the call
  \* configuration and browser (Spec)
  maxOrders,    \* this.maxOrders
  rowsOn,       \* data rows of each page of the list
  uiPage,       \* the page of the list the browser shows
  inflight,     \* rows whose transfer was triggered and has not arrived
  dangling,     \* whether a waitForEvent promise is pending that no code awaits
  crashed,      \* the process ended on an unhandled rejection
  \* run() / downloadAllPOsAcrossPages()
  pc,
  totalDownloaded,
  allDownloadedFiles,
  currentPage,
  hasNext,
  stopReason,
  returned,     \* the value downloadAllPOsAcrossPages() returned
  \* downloadPOsFromCurrentPage()
  i,
  totalRows,
  downloadedFiles,
  globalIndex,  \* the global index of the latest row attempt
  \* goToNextPage()
  poBefore,
  poAfter,
  polls,
  navClicked,
  navState,
  \* history
  clicked,      \* the rows of the page shown whose trigger was clicked
  reclicked,    \* whether the trigger of a row was clicked a second time
  rowsSeen,     \* data rows of the pages processed so far, over all visits
  saved,        \* every artifact saved, in order
  \* flattenAndMergePoFiles()
  filePaths,    \* the documents to merge, in input order
  fileIdx,      \* how many of them the loop has processed
  outputHeaders,
  allRows,
  rowOrigin,    \* for each row of allRows: the document and row it is from
  unread,       \* the documents (by position) that could not be read
  mergeState,   \* "idle", "running", "written" or "threw"
  \* BaseTask.waitForElement()
  weArg,        \* the selectors argument: an array, or one selector
  weTimeout,    \* the timeout argument
  weSelectors,  \* the list the loop runs over
  weTried,      \* the waitForSelector() calls made so far, in order
  weResult,     \* pending, the selector returned, or the error thrown
  \* BaseTask.execute() of the combined task
  exPc,
  browser,      \* this.browser: "null", "open" or "closed"
  hasPage,      \* whether this.page is set
  exError,      \* the error the catch block of execute() caught
  exOutcome,    \* how execute() ended: returned, or the error it raised
  runReturn,    \* how run() of the download task ended
  runFiles,     \* downloadedFiles in run(): the paths of the artifacts
  onDisk,       \* the artifacts that exist in the temporary directory
  tempDir,      \* whether the temporary directory exists
  unlinkTried,  \* the files cleanupTempFiles() has gone through, in order
  rmdirTried,   \* whether cleanupTempFiles() reached the directory removal
  outputWritten, \* whether the merged workbook was written
  \* goToNextPage(), control by control
  gnPhase,      \* "idle", "start", "sites", "verify" or "returned"
  gnPoBefore,   \* poBefore
  gnSite,       \* the control the call is at, as an index into Sites
  gnClicks,     \* the clicks on a next-page control that were done
  gnPolls,      \* the polls verifyContentChanged() has made
  gnPoAfter,    \* poAfter of the latest poll
  gnResult,     \* "pending", or what the call returned: "true" or "false"
  \* getTotalPOCount()
  tcCands,      \* what each pagination-info selector finds on the page
  tcBody,       \* what locator('body').textContent() gives
  tcIdx,        \* how many selectors the loop has gone through
  tcResult,     \* not called, pending, the number returned, or raised
  \* row discovery of downloadPOsFromCurrentPage()
  rdPhase,      \* "idle", "retry", "header", "limit" or "done"
  rdCounts,     \* locator(selector).count() of each selector, as last read
  rdHeader,     \* the selectors whose collection starts with a header row
  rdRemaining,  \* remainingToDownload
  rdRetry,      \* retry
  rdRowCount,   \* rowCount
  rdRowSelector, \* rowSelector
  rdWaits,      \* the waits made before the attempts, in milliseconds
  rdStartIndex, \* startIndex
  rdTotalRows,  \* totalRows
  \* generateMergedFilename() / combineFiles() of several runs
  fnClock,      \* the time, in milliseconds
  fnOutputs,    \* the merged files written so far: the time and the path
  \* two runs of the page loop that differ in what getTotalPOCount() gave
  twTotals,     \* totalPOCount of each run
  twLimit,      \* this.maxOrders, the same in both
  twRuns        \* the locals of the page loop of each run

hnVars == <<hnFrags, hnReadable, hnText, hnCands, hnOut>>

envVars == <<maxOrders, rowsOn, uiPage, inflight, dangling, crashed>>

loopVars == <<pc, totalDownloaded, allDownloadedFiles, currentPage, hasNext,
              stopReason, returned>>

pageVars == <<i, totalRows, downloadedFiles>>

navVars == <<poBefore, poAfter, polls, navClicked, navState>>

histVars == <<clicked, reclicked, rowsSeen, saved>>

mergeVars == <<filePaths, fileIdx, outputHeaders, allRows, rowOrigin,
               unread, mergeState>>

weVars == <<weArg, weTimeout, weSelectors, weTried, weResult>>

exVars == <<exPc, browser, hasPage, exError, exOutcome, runReturn, runFiles,
            onDisk, tempDir, unlinkTried, rmdirTried, outputWritten>>

gnVars == <<gnPhase, gnPoBefore, gnSite, gnClicks, gnPolls, gnPoAfter,
            gnResult>>

tcVars == <<tcCands, tcBody, tcIdx, tcResult>>

rdVars == <<rdPhase, rdCounts, rdHeader, rdRemaining, rdRetry, rdRowCount,
            rdRowSelector, rdWaits, rdStartIndex, rdTotalRows>>

fnVars == <<fnClock, fnOutputs>>

twVars == <<twTotals, twLimit, twRuns>>

vars == <<hnVars, envVars, loopVars, pageVars, globalIndex, navVars, histVars,
          mergeVars, weVars, exVars, gnVars, tcVars, rdVars, fnVars, twVars>>

(***************************************************************************)
(* SpecHasNext: hasNextPage() on bounded inputs.                           *)
(***************************************************************************)
\* the digit strings of the number tokens: "9" and "10"
Nums == {<<9>>, <<1, 0>>}

Frag(type, n1, n2) == [t |-> type, n1 |-> n1, n2 |-> n2]

\* "1-B of C", "X of Y pages", "Page X of Y", a word, the word "pages"
Frags ==
  {Frag(type, n1, n2) : type \in {"range", "pagesOf", "pageOf"}, n1 \in Nums, n2 \in Nums}
    \cup {Frag("word", <<>>, <<>>), Frag("pagesWord", <<>>, <<>>)}

FragTokens(f) ==
  CASE f.t = "range" ->
         <<NumTok(<<1>>), WordTok("dash"), NumTok(f.n1), WordTok("of"), NumTok(f.n2)>>
    [] f.t = "pagesOf" ->
         <<NumTok(f.n1), WordTok("of"), NumTok(f.n2), WordTok("pages")>>
    [] f.t = "pageOf" ->
         <<WordTok("page"), NumTok(f.n1), WordTok("of"), NumTok(f.n2)>>
    [] f.t = "word" -> <<WordTok("word")>>
    [] f.t = "pagesWord" -> <<WordTok("pages")>>

RECURSIVE Flatten(_)
Flatten(frs) ==
  IF Len(frs) = 0 THEN <<>> ELSE FragTokens(Head(frs)) \o Flatten(Tail(frs))

SeqsUpTo(S, n) == UNION {[1..k -> S] : k \in 0..n}

NotCalled == [ret |-> FALSE, by |-> "notCalled", fallback |-> FALSE]

HnIdle ==
  /\ hnFrags = <<>>
  /\ hnReadable = TRUE
  /\ hnText = <<>>
  /\ hnCands = <<>>
  /\ hnOut = NotCalled

\* flattenAndMergePoFiles() has not been called
MergeIdle ==
  /\ filePaths = <<>>
  /\ fileIdx = 0
  /\ outputHeaders = <<>>
  /\ allRows = <<>>
  /\ rowOrigin = <<>>
  /\ unread = {}
  /\ mergeState = "idle"

\* waitForElement() has not been called
WeNotCalled == [k |-> "notCalled", sel |-> 0]

WeIdle ==
  /\ weArg = [isArray |-> TRUE, items |-> <<>>]
  /\ weTimeout = 0
  /\ weSelectors = <<>>
  /\ weTried = <<>>
  /\ weResult = WeNotCalled

\* goToNextPage() is not traced control by control
GnIdle ==
  /\ gnPhase = "idle"
  /\ gnPoBefore = 0
  /\ gnSite = 1
  /\ gnClicks = 0
  /\ gnPolls = 0
  /\ gnPoAfter = 0
  /\ gnResult = "pending"

\* getTotalPOCount() is not traced
TcNotCalled == [k |-> "notCalled", n |-> 0]

TcIdle ==
  /\ tcCands = <<>>
  /\ tcBody = [k |-> "noMatch", n |-> 0]
  /\ tcIdx = 0
  /\ tcResult = TcNotCalled

\* the row discovery is not traced
RdIdle ==
  /\ rdPhase = "idle"
  /\ rdCounts = <<0, 0, 0>>
  /\ rdHeader = {}
  /\ rdRemaining = 0
  /\ rdRetry = 0
  /\ rdRowCount = 0
  /\ rdRowSelector = 1
  /\ rdWaits = <<>>
  /\ rdStartIndex = 0
  /\ rdTotalRows = 0

\* no run has written a merged workbook
FnIdle ==
  /\ fnClock = 0
  /\ fnOutputs = <<>>

\* no pair of runs is traced
TwIdle ==
  /\ twTotals = <<0, 0>>
  /\ twLimit = 0
  /\ twRuns = <<>>

\* the parts of the program that have a specification of their own
PartsIdle == GnIdle /\ TcIdle /\ RdIdle /\ FnIdle /\ TwIdle

\* execute() has not been called
Running == [k |-> "running", err |-> "none"]

ExIdle ==
  /\ exPc = "idle"
  /\ browser = "null"
  /\ hasPage = FALSE
  /\ exError = "none"
  /\ exOutcome = Running
  /\ runReturn = "none"
  /\ runFiles = <<>>
  /\ onDisk = {}
  /\ tempDir = FALSE
  /\ unlinkTried = <<>>
  /\ rmdirTried = FALSE
  /\ outputWritten = FALSE

OrchIdle ==
  /\ maxOrders = 0
  /\ rowsOn = <<>>
  /\ uiPage = 1
  /\ inflight = {}
  /\ dangling = FALSE
  /\ crashed = FALSE
  /\ pc = "idle"
  /\ totalDownloaded = 0
  /\ allDownloadedFiles = <<>>
  /\ currentPage = 1
  /\ hasNext = FALSE
  /\ stopReason = "none"
  /\ returned = <<>>
  /\ i = 0
  /\ totalRows = 0
  /\ downloadedFiles = <<>>
  /\ globalIndex = 0
  /\ poBefore = 0
  /\ poAfter = 0
  /\ polls = 0
  /\ navClicked = FALSE
  /\ navState = "idle"
  /\ clicked = {}
  /\ reclicked = FALSE
  /\ rowsSeen = 0
  /\ saved = <<>>

InitHasNext ==
  /\ hnFrags \in SeqsUpTo(Frags, MaxFrags)
  /\ hnReadable \in BOOLEAN
  /\ hnReadable = FALSE => hnFrags = <<>>
  /\ hnText = Flatten(hnFrags)
  /\ hnCands \in SeqsUpTo(CandStates, MaxCands)
  /\ hnOut = NotCalled
  /\ OrchIdle
  /\ MergeIdle
  /\ WeIdle
  /\ ExIdle
  /\ PartsIdle

\* one call of hasNextPage() on the page as it is
HasNextPageCall ==
  /\ hnOut = NotCalled
  /\ hnOut' = HasNextPage(hnReadable, hnText, hnCands)
  /\ UNCHANGED <<hnFrags, hnReadable, hnText, hnCands>>
  /\ UNCHANGED <<envVars, loopVars, pageVars, globalIndex, navVars, histVars>>
  /\ UNCHANGED <<mergeVars, weVars, exVars,
                 gnVars, tcVars, rdVars, fnVars, twVars>>

NextHasNext == HasNextPageCall

SpecHasNext == InitHasNext /\ [][NextHasNext]_vars

(***************************************************************************)
(* downloadAllPOsAcrossPages(), downloadPOsFromCurrentPage() and           *)
(* goToNextPage(): the helpers.                                            *)
(***************************************************************************)
\* JavaScript's Infinity: larger than every count
Infinity == -1

\* this.maxOrders > 0 ? this.maxOrders : Infinity
MaxToDownload(mo) == IF mo > 0 THEN mo ELSE Infinity

\* maxToDownload - totalDownloaded
Remaining(maxTo, total) == IF maxTo = Infinity THEN Infinity ELSE maxTo - total

\* remainingToDownload <= 0
LimitExhausted(rem) == rem # Infinity /\ rem <= 0

Min(a, b) == IF a < b THEN a ELSE b

\* a variant that takes every row of the page
ActualRowCountAll(rowCount, rem) == rowCount

\* Math.min(rowCount, remainingToDownload)
ActualRowCount(rowCount, rem) ==
  IF rem = Infinity THEN rowCount ELSE Min(rowCount, rem)

\* a variant without the maxOrders > 0 guard
LimitReachedNoGuard(mo, total) == total >= mo

\* a variant that leaves the row loop after the first row
RowsDoneEarly(idx, count) == idx >= 1 \/ idx >= count

\* the row loop is over: i < actualRowCount is false
RowsDone(idx, count) == idx >= count

\* this.maxOrders > 0 && totalDownloaded >= this.maxOrders
LimitReached(mo, total) == mo > 0 /\ total >= mo


\* a variant that keeps only the last page's files
AccumulateReplace(all, pageFiles) == pageFiles

\* const globalIndex = totalDownloadedSoFar + i + 1
GlobalIndex(soFar, idx) == soFar + idx + 1

\* allDownloadedFiles.push(...downloadedFiles)
Accumulate(all, pageFiles) == all \o pageFiles

\* getFirstRowPONumber() found no PO number (or threw)
NullPO == 0

\* the PO number of the first data row of a page: one per page
FirstRowPO(page) == page

\* a variant that accepts any PO number read after the click
ContentChangedAnyPO(after, before) == after # NullPO

\* poAfter && poAfter !== poBefore
ContentChanged(after, before) == after # NullPO /\ after # before

\* for (let i = 0; i < 10; i++) in verifyContentChanged
MaxPolls == 10

\* the four approaches of goToNextPage()
NumApproaches == 4

\* the row of the list a page row is: (page shown, position)
Row(page, idx) == <<page, idx>>

\* download.suggestedFilename() gave no name
NoName == <<>>

\* a name the site suggests for every transfer alike
SharedName == <<"purchase_order">>

\* a name the site derives from the row the transfer is of
OwnName(srcRow) == <<"purchase_order">> \o srcRow

\* what download.suggestedFilename() may return for the transfer of a row
SuggestedNames(srcRow) == {NoName, SharedName, OwnName(srcRow)}

\* filename = suggestedFilename() || `flipkart_po_${globalIndex}_${Date.now()}.xls`
FileName(suggested, gIndex, now) ==
  IF suggested = NoName THEN <<"flipkart_po", gIndex, now>> ELSE suggested

\* path.join(this.tempDir, filename)
FilePath(filename) == <<"temp_downloads">> \o filename

\* an artifact: the row it was saved for, the row whose transfer it is, and
\* the path it was saved at
Artifact(forRow, srcRow, filepath) ==
  [for |-> forRow, src |-> srcRow, path |-> filepath]

\* what run() does with the list downloadAllPOsAcrossPages() returned
AfterReturn(files) == IF Len(files) = 0 THEN "noFiles" ELSE "combine"

\* break out of the page loop and return allDownloadedFiles to run()
Finish(reason, files) ==
  /\ stopReason' = reason
  /\ returned' = files
  /\ pc' = AfterReturn(files)

(***************************************************************************)
(* Spec: one run against a nondeterministic browser.                       *)
(***************************************************************************)
\* what hasNextPage() may meet during a run: "9 of 10 pages", "9 of 9
\* pages", or an unreadable text with an enabled next-page control
RunPages ==
  { [readable |-> TRUE,  frs |-> <<Frag("pagesOf", <<9>>, <<1, 0>>)>>, cands |-> <<>>],
    [readable |-> TRUE,  frs |-> <<Frag("pagesOf", <<9>>, <<9>>)>>,    cands |-> <<>>],
    [readable |-> FALSE, frs |-> <<>>,                                  cands |-> <<"enabled">>] }

RECURSIVE Sum(_)
Sum(q) == IF Len(q) = 0 THEN 0 ELSE Head(q) + Sum(Tail(q))

\* the page layouts: up to MaxPages pages, MaxTotalRows data rows in all
Layouts ==
  {q \in UNION {[1..n -> 0..MaxTotalRows] : n \in 1..MaxPages} :
     Sum(q) <= MaxTotalRows}

\* a run is followed for MaxVisits iterations of the page loop, and as long
\* as the pages it has processed hold MaxTotalRows data rows in all
MaxVisits == MaxPages

Init ==
  /\ HnIdle
  /\ MergeIdle
  /\ WeIdle
  /\ ExIdle
  /\ PartsIdle
  /\ maxOrders \in 0..MaxLimit
  /\ rowsOn \in Layouts
  /\ uiPage = 1
  /\ inflight = {}
  /\ dangling = FALSE
  /\ crashed = FALSE
  /\ pc = "count"
  /\ totalDownloaded = 0
  /\ allDownloadedFiles = <<>>
  /\ currentPage = 1
  /\ hasNext = FALSE
  /\ stopReason = "none"
  /\ returned = <<>>
  /\ i = 0
  /\ totalRows = 0
  /\ downloadedFiles = <<>>
  /\ globalIndex = 0
  /\ poBefore = NullPO
  /\ poAfter = NullPO
  /\ polls = 0
  /\ navClicked = FALSE
  /\ navState = "idle"
  /\ clicked = {}
  /\ reclicked = FALSE
  /\ rowsSeen = 0
  /\ saved = <<>>

\* the locals of goToNextPage() once it has returned true
NavReset ==
  /\ poBefore' = NullPO
  /\ poAfter' = NullPO
  /\ polls' = 0
  /\ navClicked' = FALSE
  /\ navState' = "idle"

\* a variant in which a query of the page clicks the next-page control
ProbeClicks(shown) == shown + 1

\* the page the list shows after hasNextPage() or getTotalPOCount(): their
\* calls on the page are isVisible(), isDisabled(), getAttribute(),
\* textContent() and an evaluate() that reads properties of the node
Probe(shown) == shown

\* const totalPOCount = await this.getTotalPOCount(): the value is logged
\* and used nowhere else
GetTotalPOCount ==
  /\ pc = "count"
  /\ ~crashed
  /\ pc' = "loop"
  /\ uiPage' = Probe(uiPage)
  /\ UNCHANGED <<totalDownloaded, allDownloadedFiles, currentPage, hasNext,
                 stopReason, returned>>
  /\ UNCHANGED <<maxOrders, rowsOn, inflight, dangling, crashed>>
  /\ UNCHANGED <<mergeVars, weVars, exVars,
                 gnVars, tcVars, rdVars, fnVars, twVars, globalIndex, hnVars, pageVars,
                 navVars, histVars>>

\* top of the while loop: the limit check, then the call of
\* downloadPOsFromCurrentPage(totalDownloaded, remainingToDownload)
StartPage ==
  /\ pc = "loop"
  /\ ~crashed
  /\ LET rem == Remaining(MaxToDownload(maxOrders), totalDownloaded)
     IN  IF LimitExhausted(rem)
         THEN /\ Finish("limitTop", allDownloadedFiles)
              /\ UNCHANGED pageVars
         ELSE /\ pc' = "rows"
              /\ i' = 0
              /\ totalRows' = ActualRowCount(rowsOn[uiPage], rem)
              /\ downloadedFiles' = <<>>
              /\ UNCHANGED <<stopReason, returned>>
  /\ NavReset
  /\ rowsSeen' = rowsSeen + rowsOn[uiPage]
  /\ UNCHANGED <<clicked, reclicked, saved>>
  /\ UNCHANGED <<totalDownloaded, allDownloadedFiles, currentPage, hasNext>>
  /\ UNCHANGED <<mergeVars, weVars, exVars,
                 gnVars, tcVars, rdVars, fnVars, twVars, globalIndex, hnVars, envVars>>

\* one iteration of the row loop up to the click of the trigger: the
\* trigger is not found, or waitForEvent('download') is registered and the
\* click throws, or it is registered and the click is done
RowStep ==
  /\ pc = "rows"
  /\ ~crashed
  /\ ~RowsDone(i, totalRows)
  /\ globalIndex' = GlobalIndex(totalDownloaded, i)
  /\ \E btn \in {"notFound", "clickFails", "clicked"} :
       IF btn = "clicked"
       THEN /\ pc' = "wait"
            /\ i' = i
            /\ clicked' = clicked \cup {i + 1}
            /\ reclicked' = (reclicked \/ (i + 1) \in clicked)
            /\ inflight' = inflight \cup {Row(uiPage, i + 1)}
            /\ dangling' = dangling
       ELSE /\ pc' = "rows"
            /\ i' = i + 1
            /\ UNCHANGED <<clicked, reclicked, inflight>>
            /\ dangling' = (dangling \/ btn = "clickFails")
  /\ UNCHANGED <<totalRows, downloadedFiles, rowsSeen, saved>>
  /\ UNCHANGED <<totalDownloaded, allDownloadedFiles, currentPage, hasNext,
                 stopReason, returned>>
  /\ UNCHANGED <<maxOrders, rowsOn, uiPage, crashed>>
  /\ UNCHANGED <<mergeVars, weVars, exVars,
                 gnVars, tcVars, rdVars, fnVars, twVars, hnVars, navVars>>

\* Date.now() at a save: saves are more than a second apart, so every save
\* reads a later time than the saves before it
Now == Len(saved) + 1

\* a transfer arrives while the row loop awaits one: every pending
\* waitForEvent resolves with it; suggestedFilename(), saveAs(), push
TransferArrives(r) ==
  /\ pc = "wait"
  /\ ~crashed
  /\ r \in inflight
  /\ inflight' = inflight \ {r}
  /\ dangling' = FALSE
  /\ \E saveOk \in BOOLEAN, suggested \in SuggestedNames(r) :
       LET filename == FileName(suggested, globalIndex, Now)
           art == Artifact(Row(uiPage, i + 1), r, FilePath(filename))
       IN  /\ downloadedFiles' = IF saveOk THEN Append(downloadedFiles, art)
                                           ELSE downloadedFiles
           /\ saved' = IF saveOk THEN Append(saved, art) ELSE saved
  /\ i' = i + 1
  /\ pc' = "rows"
  /\ UNCHANGED <<totalRows, clicked, reclicked, rowsSeen>>
  /\ UNCHANGED <<totalDownloaded, allDownloadedFiles, currentPage, hasNext,
                 stopReason, returned>>
  /\ UNCHANGED <<maxOrders, rowsOn, uiPage, crashed>>
  /\ UNCHANGED <<mergeVars, weVars, exVars,
                 gnVars, tcVars, rdVars, fnVars, twVars, globalIndex, hnVars, navVars>>

\* the awaited waitForEvent('download') times out: caught, next row; the
\* transfer of the row may still arrive later, or never
TransferTimeout ==
  /\ pc = "wait"
  /\ ~crashed
  /\ \E late \in BOOLEAN :
       /\ inflight' = IF late THEN inflight ELSE inflight \ {Row(uiPage, i + 1)}
  /\ i' = i + 1
  /\ pc' = "rows"
  /\ UNCHANGED <<totalRows, downloadedFiles>>
  /\ UNCHANGED <<totalDownloaded, allDownloadedFiles, currentPage, hasNext,
                 stopReason, returned>>
  /\ UNCHANGED <<maxOrders, rowsOn, uiPage, dangling, crashed>>
  /\ UNCHANGED <<mergeVars, weVars, exVars,
                 gnVars, tcVars, rdVars, fnVars, twVars, globalIndex, hnVars, navVars, histVars>>

\* a transfer arrives while the code awaits none: the waitForEvent promises
\* left pending resolve with it
TransferUnawaited(r) ==
  /\ pc \in {"loop", "rows", "hasNext", "goNext", "verify"}
  /\ ~crashed
  /\ r \in inflight
  /\ inflight' = inflight \ {r}
  /\ dangling' = FALSE
  /\ UNCHANGED <<maxOrders, rowsOn, uiPage, crashed>>
  /\ UNCHANGED <<mergeVars, weVars, exVars,
                 gnVars, tcVars, rdVars, fnVars, twVars, globalIndex, hnVars, loopVars, pageVars, navVars, histVars>>

\* a waitForEvent promise that nothing awaits rejects on its timeout: an
\* unhandled rejection, which ends the process or is only reported
UnhandledRejection ==
  /\ pc \in {"loop", "rows", "wait", "hasNext", "goNext", "verify"}
  /\ ~crashed
  /\ dangling
  /\ dangling' = FALSE
  /\ crashed' \in BOOLEAN
  /\ UNCHANGED <<maxOrders, rowsOn, uiPage, inflight>>
  /\ UNCHANGED <<mergeVars, weVars, exVars,
                 gnVars, tcVars, rdVars, fnVars, twVars, globalIndex, hnVars, loopVars, pageVars, navVars, histVars>>

\* a variant that counts the rows attempted
DownloadedCountAttempted(files, attempted) == attempted

\* downloadedCount: downloadedFiles.length
DownloadedCount(files, attempted) == Len(files)

\* the row loop is over: downloadPOsFromCurrentPage() returns, the page loop
\* accumulates and checks the limit
PageDone ==
  /\ pc = "rows"
  /\ ~crashed
  /\ RowsDone(i, totalRows)
  /\ LET files == Accumulate(allDownloadedFiles, downloadedFiles)
         total == totalDownloaded + DownloadedCount(downloadedFiles, totalRows)
     IN  /\ allDownloadedFiles' = files
         /\ totalDownloaded' = total
         /\ IF LimitReached(maxOrders, total)
            THEN Finish("limit", files)
            ELSE /\ pc' = "hasNext"
                 /\ UNCHANGED <<stopReason, returned>>
  /\ i' = 0
  /\ totalRows' = 0
  /\ downloadedFiles' = <<>>
  /\ UNCHANGED <<currentPage, hasNext>>
  /\ UNCHANGED <<mergeVars, weVars, exVars,
                 gnVars, tcVars, rdVars, fnVars, twVars, globalIndex, hnVars, envVars, navVars, histVars>>

\* hasNextPage(), and when it is true the start of goToNextPage(): the
\* fingerprint before the click
CheckNextPage ==
  /\ pc = "hasNext"
  /\ ~crashed
  /\ \E pg \in RunPages :
       LET out == HasNextPage(pg.readable, Flatten(pg.frs), pg.cands)
       IN  /\ hasNext' = out.ret
           /\ IF out.ret
              THEN /\ pc' = "goNext"
                   /\ \E po \in {NullPO, FirstRowPO(uiPage)} : poBefore' = po
                   /\ poAfter' = NullPO
                   /\ polls' = 0
                   /\ navClicked' = FALSE
                   /\ navState' = "running"
                   /\ UNCHANGED <<stopReason, returned>>
              ELSE /\ Finish("noNext", allDownloadedFiles)
                   /\ UNCHANGED navVars
  /\ uiPage' = Probe(uiPage)
  /\ UNCHANGED <<maxOrders, rowsOn, inflight, dangling, crashed>>
  /\ UNCHANGED <<totalDownloaded, allDownloadedFiles, currentPage>>
  /\ UNCHANGED <<mergeVars, weVars, exVars,
                 gnVars, tcVars, rdVars, fnVars, twVars, globalIndex, hnVars, pageVars, histVars>>

\* the approaches of goToNextPage(), in order: the first whose click is
\* done goes on to verifyContentChanged(); approaches that find no control,
\* or whose click throws, fall through to the next; after the last, false
NavTrigger ==
  /\ pc = "goNext"
  /\ ~crashed
  /\ \E by \in 0..NumApproaches :
       IF by # 0
       THEN /\ navClicked' = TRUE
            /\ pc' = "verify"
            /\ UNCHANGED <<navState, stopReason, returned>>
       ELSE /\ navClicked' = FALSE
            /\ navState' = "false"
            /\ Finish("navFailed", allDownloadedFiles)
  /\ UNCHANGED <<poBefore, poAfter, polls>>
  /\ UNCHANGED <<totalDownloaded, allDownloadedFiles, currentPage, hasNext>>
  /\ UNCHANGED <<mergeVars, weVars, exVars,
                 gnVars, tcVars, rdVars, fnVars, twVars, globalIndex, hnVars, envVars, pageVars, histVars>>

\* verifyContentChanged(): up to MaxPolls polls, one second apart, of the
\* fingerprint of the first data row.  The click may or may not make the
\* list render its next page within the polls, and the fingerprint may or
\* may not be readable; the first poll that reads a fingerprint other than
\* poBefore ends the wait.
NavVerify ==
  /\ pc = "verify"
  /\ ~crashed
  /\ \E rendered \in {b \in BOOLEAN : b => uiPage < Len(rowsOn)},
        seen \in BOOLEAN, k \in {1, MaxPolls} :
       LET shown == IF rendered THEN uiPage + 1 ELSE uiPage
           after == IF seen THEN FirstRowPO(shown) ELSE NullPO
       IN  /\ uiPage' = shown
           /\ clicked' = IF rendered THEN {} ELSE clicked
           /\ poAfter' = after
           /\ IF ContentChanged(after, poBefore)
              THEN /\ currentPage < MaxVisits
                   /\ rowsSeen + rowsOn[shown] <= MaxTotalRows
                   /\ polls' = k
                   /\ navState' = "true"
                   /\ currentPage' = currentPage + 1
                   /\ pc' = "loop"
                   /\ UNCHANGED <<stopReason, returned>>
              ELSE /\ polls' = MaxPolls
                   /\ currentPage' = currentPage
                   /\ navState' = "false"
                   /\ Finish("navFailed", allDownloadedFiles)
  /\ UNCHANGED <<poBefore, navClicked>>
  /\ UNCHANGED <<totalDownloaded, allDownloadedFiles, hasNext>>
  /\ UNCHANGED <<maxOrders, rowsOn, inflight, dangling, crashed>>
  /\ UNCHANGED <<reclicked, rowsSeen, saved>>
  /\ UNCHANGED <<mergeVars, weVars, exVars,
                 gnVars, tcVars, rdVars, fnVars, twVars, globalIndex, hnVars, pageVars>>

Rows == {Row(p, n) : p \in 1..MaxPages, n \in 1..MaxTotalRows}

Next ==
  \/ GetTotalPOCount
  \/ StartPage
  \/ RowStep
  \/ \E r \in Rows : TransferArrives(r)
  \/ TransferTimeout
  \/ \E r \in Rows : TransferUnawaited(r)
  \/ UnhandledRejection
  \/ PageDone
  \/ CheckNextPage
  \/ NavTrigger
  \/ NavVerify

Spec == Init /\ [][Next]_vars

\* the run under the scheduling of the event loop: a step that can be taken
\* (a timer, a browser event, the continuation of an await) is taken
FairSpec == Init /\ [][Next]_vars /\ WF_vars(Next)

(***************************************************************************)
(* src/src/utils/xls-merger.js: flattenAndMergePoFiles(), flattenPoData()  *)
(* and extractPoMetadata().  A document is the array of arrays that        *)
(* XLSX.utils.sheet_to_json(sheet, {header: 1}) returns; a cell is a       *)
(* number, a string, or undefined.                                         *)
(***************************************************************************)
\* a cell: t is its JavaScript type ("num", "str", or "none" for undefined);
\* a string cell is the text s followed by the decimal digits of n (no
\* digits when n = 0, no letters when s = "")
Cell(type, text, num) == [t |-> type, s |-> text, n |-> num]

Num(num) == Cell("num", "", num)

Str(text) == Cell("str", text, 0)

\* a string of digits only
Digits(num) == Cell("str", "", num)

\* the text followed by a number, one string per (text, tag)
Tagged(text, tag) == Cell("str", text, tag)

Undefined == Cell("none", "", 0)

\* JavaScript truthiness of a cell
Truthy(c) ==
  CASE c.t = "num"  -> c.n # 0
    [] c.t = "str"  -> ~(c.s = "" /\ c.n = 0)
    [] OTHER        -> FALSE

\* row[0]: undefined beyond the end of the array
FirstCell(row) == IF Len(row) = 0 THEN Undefined ELSE row[1]

\* x || ''
OrEmpty(c) == IF Truthy(c) THEN c ELSE Str("")

\* the labels flattenPoData() accepts in the first cell of the header row
Sentinels == {"S. no.", "S.no.", "Sno", "S No"}

\* row && row[0] && (row[0] === 'S. no.' || ...)
IsLineItemsHeader(row) ==
  LET c == FirstCell(row) IN Truthy(c) /\ c.t = "str" /\ c.n = 0 /\ c.s \in Sentinels

\* the first row whose first cell is a sentinel, as an index into data
\* (1-based), or NoMatch
RECURSIVE LineItemsHeaderIndex(_, _)
LineItemsHeaderIndex(data, from) ==
  IF from > Len(data) THEN NoMatch
  ELSE IF IsLineItemsHeader(data[from]) THEN from
  ELSE LineItemsHeaderIndex(data, from + 1)

\* typeof firstCell === 'number' || /^\d+$/.test(firstCell.trim())
IsLineItem(row) ==
  LET c == FirstCell(row)
  IN  c.t = "num" \/ (c.t = "str" /\ c.s = "" /\ c.n > 0)

\* the texts of the model in which 'Total' or 'Important' occurs
MarkerTexts == {"Total", "Grand Total", "Important Notification"}

\* a variant that recognises no terminal marker
IsTerminalMarkerNever(row) == FALSE

\* firstCell && (String(firstCell).includes('Total') ||
\*               String(firstCell).includes('Important'))
IsTerminalMarker(row) ==
  LET c == FirstCell(row) IN Truthy(c) /\ c.t = "str" /\ c.s \in MarkerTexts

\* the value after the last cell equal to the label (the loop over data[1]
\* has no break), '' when the label does not occur before the last cell
RECURSIVE LastAfter(_, _, _, _)
LastAfter(row, label, k, acc) ==
  IF k > Len(row) - 1 THEN acc
  ELSE LastAfter(row, label, k + 1,
                 IF row[k] = Str(label) THEN OrEmpty(row[k + 1]) ELSE acc)

\* the value after the first cell equal to the label (loops with break)
RECURSIVE FirstAfter(_, _, _)
FirstAfter(row, label, k) ==
  IF k > Len(row) - 1 THEN Str("")
  ELSE IF row[k] = Str(label) THEN OrEmpty(row[k + 1])
  ELSE FirstAfter(row, label, k + 1)

\* data[k] || [] for the 0-based row index k
RowAt(data, k) == IF k + 1 <= Len(data) THEN data[k + 1] ELSE <<>>

ExtractPoMetadata(data) ==
  [ poNumber     |-> LastAfter(RowAt(data, 1), "PO#", 1, Str("")),
    category     |-> LastAfter(RowAt(data, 1), "CATEGORY", 1, Str("")),
    orderDate    |-> LastAfter(RowAt(data, 1), "ORDER DATE", 1, Str("")),
    poExpiry     |-> LastAfter(RowAt(data, 1), "PO Expiry", 1, Str("")),
    supplierName |-> FirstAfter(RowAt(data, 2), "SUPPLIER NAME", 1),
    paymentTerm  |-> FirstAfter(RowAt(data, 6), "CREDIT TERM", 1) ]

MetadataHeaders ==
  << Str("PO_Number"), Str("Category"), Str("Order_Date"), Str("PO_Expiry"),
     Str("Supplier_Name"), Str("Payment_Term") >>

\* a variant with the supplier name and the payment term exchanged
MetadataValuesSwapped(metadata) ==
  << OrEmpty(metadata.poNumber), OrEmpty(metadata.category),
     OrEmpty(metadata.orderDate), OrEmpty(metadata.poExpiry),
     OrEmpty(metadata.paymentTerm), OrEmpty(metadata.supplierName) >>

\* const metadataValues = [metadata.poNumber || '', ...]
MetadataValues(metadata) ==
  << OrEmpty(metadata.poNumber), OrEmpty(metadata.category),
     OrEmpty(metadata.orderDate), OrEmpty(metadata.poExpiry),
     OrEmpty(metadata.supplierName), OrEmpty(metadata.paymentTerm) >>

\* the loop over the rows after the header row: the rows it keeps, as
\* indices into data, up to the first terminal marker
RECURSIVE LineItemRows(_, _)
LineItemRows(data, from) ==
  IF from > Len(data) THEN <<>>
  ELSE IF Len(data[from]) = 0 THEN LineItemRows(data, from + 1)
  ELSE IF IsLineItem(data[from])
       THEN <<from>> \o LineItemRows(data, from + 1)
  ELSE IF IsTerminalMarker(data[from]) THEN <<>>
  ELSE LineItemRows(data, from + 1)

\* flattenPoData(data): the headers, the rows, and for each row the index
\* in data of the row it is made of
FlattenPoData(data) ==
  IF Len(data) = 0 THEN [headers |-> <<>>, rows |-> <<>>, from |-> <<>>]
  ELSE
    LET lineItemsHeaderIndex == LineItemsHeaderIndex(data, 1)
    IN  IF lineItemsHeaderIndex = NoMatch
        THEN [ headers |-> data[1],
               rows    |-> SubSeq(data, 2, Len(data)),
               from    |-> [k \in 1..(Len(data) - 1) |-> k + 1] ]
        ELSE
          LET kept == LineItemRows(data, lineItemsHeaderIndex + 1)
              metadataValues == MetadataValues(ExtractPoMetadata(data))
          IN  [ headers |-> MetadataHeaders \o data[lineItemsHeaderIndex],
                rows    |-> [k \in 1..Len(kept) |->
                               metadataValues \o data[kept[k]]],
                from    |-> kept ]

(***************************************************************************)
(* SpecMerge: flattenAndMergePoFiles() on bounded lists of documents.      *)
(***************************************************************************)
\* rows 0 to 7 of a purchase-order document: the metadata block
MetaBlock(po) ==
  << <<Str("Flipkart")>>,
     <<Str("PO#"), Tagged("PO", po), Str("CATEGORY"), Tagged("CAT", po),
       Str("ORDER DATE"), Tagged("DATE", po),
       Str("PO Expiry"), Tagged("EXP", po)>>,
     <<Str("SUPPLIER NAME"), Tagged("SUP", po)>>,
     <<>>, <<>>, <<>>,
     <<Str("CREDIT TERM"), Tagged("TERM", po)>>,
     <<Str("ORDER DETAILS")>> >>

\* the line-item header row: the sentinel, then the labels
HeaderRow(labels) ==
  <<Str("S. no.")>> \o [k \in 1..Len(labels) |-> Str(labels[k])]

\* the values of line item n of document po: one string per label
ItemCells(po, n, labels) ==
  [k \in 1..Len(labels) |-> Tagged(labels[k], 10 * po + n)]

\* a row below the header row: a line item numbered by a number or by a
\* string of digits, a 'Total' row, or a blank row
BodyRow(po, labels, b) ==
  CASE b.k = "item"   -> <<Num(b.n)>> \o ItemCells(po, b.n, labels)
    [] b.k = "digits" -> <<Digits(b.n)>> \o ItemCells(po, b.n, labels)
    [] b.k = "total"  -> <<Str("Total"), Tagged("SUM", po)>>
    [] OTHER          -> <<>>

Body(kind, n) == [k |-> kind, n |-> n]

\* a document: what it was made from, and its array of arrays
MakeDoc(po, labels, body) ==
  [ po     |-> po,
    labels |-> labels,
    body   |-> body,
    data   |-> MetaBlock(po) \o <<HeaderRow(labels)>>
                 \o [k \in 1..Len(body) |-> BodyRow(po, labels, body[k])] ]

\* a document that is not a purchase order
RawDoc(po, grid) == [po |-> po, labels |-> <<>>, body |-> <<>>, data |-> grid]

\* the documents of the model:
\*   1, 2  labels A B, two line items each
\*   3     labels B C, one line item
\*   4     labels A B, a line item, a 'Total' row, then a row numbered 2
\*   5     no header row, an empty first row
\*   6     an empty sheet
\*   7     label A only, one line item numbered by a string of digits
\*   8     labels A B, a header row and no row below it
\*   9     label C only, a row numbered 0 and a row numbered -1
Documents ==
  { MakeDoc(1, <<"A", "B">>, <<Body("item", 1), Body("item", 2)>>),
    MakeDoc(2, <<"A", "B">>, <<Body("item", 1), Body("item", 2)>>),
    MakeDoc(3, <<"B", "C">>, <<Body("item", 1)>>),
    MakeDoc(4, <<"A", "B">>,
            <<Body("item", 1), Body("total", 0), Body("item", 2)>>),
    RawDoc(5, << <<>>, <<Str("x"), Str("y")>> >>),
    RawDoc(6, <<>>),
    MakeDoc(7, <<"A">>, <<Body("digits", 1)>>),
    MakeDoc(8, <<"A", "B">>, <<>>),
    MakeDoc(9, <<"C">>, <<Body("item", 0), Body("item", -1)>>) }

\* where a row of allRows is from: document number k of filePaths and the
\* row of its data (1-based); a header row has hdr = TRUE
Origin(k, row, isHeader) == [doc |-> k, row |-> row, hdr |-> isHeader]

InitMerge ==
  /\ HnIdle
  /\ OrchIdle
  /\ WeIdle
  /\ ExIdle
  /\ PartsIdle
  /\ filePaths \in SeqsUpTo(Documents, MaxDocs)
  /\ fileIdx = 0
  /\ outputHeaders = <<>>
  /\ allRows = <<>>
  /\ rowOrigin = <<>>
  /\ unread = {}
  /\ mergeState = "idle"

\* the guard on the list of files
MergeStart ==
  /\ mergeState = "idle"
  /\ mergeState' = IF Len(filePaths) = 0 THEN "threw" ELSE "running"
  /\ UNCHANGED <<filePaths, fileIdx, outputHeaders, allRows, rowOrigin,
                 unread>>
  /\ UNCHANGED <<hnVars, envVars, loopVars, pageVars, globalIndex, navVars,
                 histVars, weVars, exVars,
                 gnVars, tcVars, rdVars, fnVars, twVars>>

\* a variant that takes the headers of every document that has some
CapturesHeadersAlways(current, headers) == Len(headers) > 0

\* !outputHeaders && headers && headers.length > 0
CapturesHeaders(current, headers) == current = <<>> /\ Len(headers) > 0

\* a variant that skips no file
SkipFileNever(readOk, data) == FALSE

\* XLSX.readFile() throws (caught, next file) or data.length === 0 (continue)
SkipFile(readOk, data) == ~readOk \/ Len(data) = 0

\* one iteration of the loop over filePaths: the file cannot be read (caught
\* and skipped), or is empty, or is flattened and appended
MergeFile ==
  /\ mergeState = "running"
  /\ fileIdx < Len(filePaths)
  /\ fileIdx' = fileIdx + 1
  /\ \E readOk \in BOOLEAN :
       LET data == filePaths[fileIdx + 1].data
           flat == FlattenPoData(data)
           first == CapturesHeaders(outputHeaders, flat.headers)
           headerRow == IF first THEN <<flat.headers>> ELSE <<>>
           headerOrigin ==
             IF first THEN <<Origin(fileIdx + 1, 0, TRUE)>> ELSE <<>>
       IN  /\ unread' = IF readOk THEN unread ELSE unread \cup {fileIdx + 1}
           /\ IF SkipFile(readOk, data)
              THEN UNCHANGED <<outputHeaders, allRows, rowOrigin>>
              ELSE
                /\ outputHeaders' = IF first THEN flat.headers
                                             ELSE outputHeaders
                /\ allRows' = allRows \o headerRow \o flat.rows
                /\ rowOrigin' = rowOrigin \o headerOrigin
                     \o [k \in 1..Len(flat.from) |->
                           Origin(fileIdx + 1, flat.from[k], FALSE)]
  /\ UNCHANGED <<filePaths, mergeState>>
  /\ UNCHANGED <<hnVars, envVars, loopVars, pageVars, globalIndex, navVars,
                 histVars, weVars, exVars,
                 gnVars, tcVars, rdVars, fnVars, twVars>>

\* after the loop: nothing collected is an error, otherwise allRows is
\* written as one sheet
MergeWrite ==
  /\ mergeState = "running"
  /\ fileIdx = Len(filePaths)
  /\ mergeState' = IF Len(allRows) = 0 THEN "threw" ELSE "written"
  /\ UNCHANGED <<filePaths, fileIdx, outputHeaders, allRows, rowOrigin,
                 unread>>
  /\ UNCHANGED <<hnVars, envVars, loopVars, pageVars, globalIndex, navVars,
                 histVars, weVars, exVars,
                 gnVars, tcVars, rdVars, fnVars, twVars>>

NextMerge ==
  \/ MergeStart
  \/ MergeFile
  \/ MergeWrite

SpecMerge == InitMerge /\ [][NextMerge]_vars

(***************************************************************************)
(* SpecWaitForElement: BaseTask.waitForElement() on bounded lists of       *)
(* selectors.                                                              *)
(***************************************************************************)
\* the selectors of the model
SelectorPool == {1, 2}

\* timeout = 10000 when the caller gives none
DefaultTimeout == 10000

\* the timeout enterEmail() gives
EmailTimeout == 15000

\* the selectors argument: an array of selectors, or one selector
SelectorArgs ==
  {[isArray |-> TRUE, items |-> q] : q \in SeqsUpTo(SelectorPool, MaxStrategies)}
    \cup {[isArray |-> FALSE, items |-> <<x>>] : x \in SelectorPool}

\* if (!Array.isArray(selectors)) selectors = [selectors]
AsArray(arg) == IF arg.isArray THEN arg.items ELSE <<arg.items[1]>>

\* a variant that gives every selector the whole timeout
ShareWhole(timeout, n) == [num |-> timeout, den |-> 1]

\* timeout / selectors.length, as a fraction
Share(timeout, n) == [num |-> timeout, den |-> n]

Pending == [k |-> "pending", sel |-> 0]

InitWaitForElement ==
  /\ HnIdle
  /\ OrchIdle
  /\ MergeIdle
  /\ ExIdle
  /\ PartsIdle
  /\ weArg \in SelectorArgs
  /\ weTimeout \in {DefaultTimeout, EmailTimeout}
  /\ weSelectors = <<>>
  /\ weTried = <<>>
  /\ weResult = WeNotCalled

\* the call: the argument is made an array
WaitForElementCall ==
  /\ weResult = WeNotCalled
  /\ weSelectors' = AsArray(weArg)
  /\ weResult' = Pending
  /\ UNCHANGED <<weArg, weTimeout, weTried>>
  /\ UNCHANGED <<hnVars, envVars, loopVars, pageVars, globalIndex, navVars,
                 histVars, mergeVars, exVars,
                 gnVars, tcVars, rdVars, fnVars, twVars>>

\* one iteration of the loop: waitForSelector() resolves, and the selector
\* is returned, or it times out, which is caught
WaitForSelector ==
  /\ weResult = Pending
  /\ Len(weTried) < Len(weSelectors)
  /\ LET selector == weSelectors[Len(weTried) + 1]
     IN  \E found \in BOOLEAN :
           /\ weTried' = Append(weTried,
                  [ sel     |-> selector,
                    timeout |-> Share(weTimeout, Len(weSelectors)),
                    found   |-> found ])
           /\ weResult' = IF found THEN [k |-> "returned", sel |-> selector]
                                   ELSE weResult
  /\ UNCHANGED <<weArg, weTimeout, weSelectors>>
  /\ UNCHANGED <<hnVars, envVars, loopVars, pageVars, globalIndex, navVars,
                 histVars, mergeVars, exVars,
                 gnVars, tcVars, rdVars, fnVars, twVars>>

\* the loop is over and no selector was returned: throw new Error(...)
WaitForElementThrow ==
  /\ weResult = Pending
  /\ Len(weTried) = Len(weSelectors)
  /\ weResult' = [k |-> "threw", sel |-> 0]
  /\ UNCHANGED <<weArg, weTimeout, weSelectors, weTried>>
  /\ UNCHANGED <<hnVars, envVars, loopVars, pageVars, globalIndex, navVars,
                 histVars, mergeVars, exVars,
                 gnVars, tcVars, rdVars, fnVars, twVars>>

NextWaitForElement ==
  \/ WaitForElementCall
  \/ WaitForSelector
  \/ WaitForElementThrow

SpecWaitForElement == InitWaitForElement /\ [][NextWaitForElement]_vars

(***************************************************************************)
(* SpecTotalCount: getTotalPOCount() on bounded page contents.             *)
(***************************************************************************)
\* /of\s+(\d+)/i
OfPattern == <<"of", "num">>

\* /Showing\s+\d+-\d+\s+of\s+(\d+)/i
ShowingPattern == <<"showing", "num", "dash", "num", "of", "num">>

\* the last capture group of a match of pat at index at
LastGroup(txt, at, pat) == ParseInt(txt[at + Len(pat) - 1].d)

\* what a selector of paginationInfoSelectors finds:
\*   vis     isVisible() is true, or false (also when it rejects)
\*   throws  textContent() rejects
\*   null    textContent() resolves to null
\*   toks    the text otherwise
Found(vis, throws, null, toks) ==
  [vis |-> vis, throws |-> throws, null |-> null, toks |-> toks]

\* the text "1-9 of n"
RangeText(n) == FragTokens(Frag("range", <<9>>, n))

\* a hidden element whose text shows 9, an element whose text cannot be
\* read or is null, a visible word, a visible "1-9 of 10"
InfoCandidates ==
  { Found(FALSE, FALSE, FALSE, RangeText(<<9>>)),
    Found(TRUE, TRUE, FALSE, <<>>),
    Found(TRUE, FALSE, TRUE, <<>>),
    Found(TRUE, FALSE, FALSE, <<WordTok("word")>>),
    Found(TRUE, FALSE, FALSE, RangeText(<<1, 0>>)) }

\* the five selectors of paginationInfoSelectors
InfoSelectors == 1..5

\* what locator('body').textContent() gives: it rejects, or a text with or
\* without the word "Showing" before the range
BodyTexts ==
  { [throws |-> TRUE, toks |-> <<>>],
    [throws |-> FALSE, toks |-> <<WordTok("word")>>],
    [throws |-> FALSE, toks |-> RangeText(<<9>>)],
    [throws |-> FALSE, toks |-> <<WordTok("showing")>> \o RangeText(<<9>>)] }

\* a variant that also reads an element that is not visible
YieldsTotalHidden(c) ==
  ~c.throws /\ ~c.null /\ MatchIndex(c.toks, OfPattern) # NoMatch

\* isVisible, and text.match(/of\s+(\d+)/i) is not null; a rejected
\* textContent() and a null text throw inside the try block of the selector
YieldsTotal(c) ==
  c.vis /\ ~c.throws /\ ~c.null /\ MatchIndex(c.toks, OfPattern) # NoMatch

\* parseInt(match[1], 10)
CandidateTotal(c) == LastGroup(c.toks, MatchIndex(c.toks, OfPattern), OfPattern)

TcPending == [k |-> "pending", n |-> 0]

TcReturned(n) == [k |-> "returned", n |-> n]

InitTotalCount ==
  /\ HnIdle
  /\ OrchIdle
  /\ MergeIdle
  /\ WeIdle
  /\ ExIdle
  /\ GnIdle
  /\ RdIdle
  /\ FnIdle
  /\ TwIdle
  /\ tcCands \in [InfoSelectors -> InfoCandidates]
  /\ tcBody \in BodyTexts
  /\ tcIdx = 0
  /\ tcResult = TcNotCalled

\* the call
TotalCountCall ==
  /\ tcResult = TcNotCalled
  /\ tcResult' = TcPending
  /\ UNCHANGED <<tcCands, tcBody, tcIdx>>
  /\ UNCHANGED <<hnVars, envVars, loopVars, pageVars, globalIndex, navVars,
                 histVars, mergeVars, weVars, exVars, gnVars, rdVars, fnVars,
                 twVars>>

\* one iteration of the loop over paginationInfoSelectors
TotalCountCandidate ==
  /\ tcResult = TcPending
  /\ tcIdx < Len(tcCands)
  /\ tcIdx' = tcIdx + 1
  /\ LET c == tcCands[tcIdx + 1]
     IN  tcResult' = IF YieldsTotal(c) THEN TcReturned(CandidateTotal(c))
                                      ELSE tcResult
  /\ UNCHANGED <<tcCands, tcBody>>
  /\ UNCHANGED <<hnVars, envVars, loopVars, pageVars, globalIndex, navVars,
                 histVars, mergeVars, weVars, exVars, gnVars, rdVars, fnVars,
                 twVars>>

\* after the loop: the text of the body; a rejection goes to the outer
\* catch, which returns 0, as does a text without the pattern
TotalCountFallback ==
  /\ tcResult = TcPending
  /\ tcIdx = Len(tcCands)
  /\ LET at == IF tcBody.throws THEN NoMatch
               ELSE MatchIndex(tcBody.toks, ShowingPattern)
     IN  tcResult' = IF at = NoMatch THEN TcReturned(0)
                     ELSE TcReturned(LastGroup(tcBody.toks, at, ShowingPattern))
  /\ UNCHANGED <<tcCands, tcBody, tcIdx>>
  /\ UNCHANGED <<hnVars, envVars, loopVars, pageVars, globalIndex, navVars,
                 histVars, mergeVars, weVars, exVars, gnVars, rdVars, fnVars,
                 twVars>>

NextTotalCount ==
  \/ TotalCountCall
  \/ TotalCountCandidate
  \/ TotalCountFallback

SpecTotalCount == InitTotalCount /\ [][NextTotalCount]_vars

(***************************************************************************)
(* SpecRowDiscovery: the row discovery of downloadPOsFromCurrentPage(), up *)
(* to the number of rows it goes on to process.                            *)
(***************************************************************************)
\* const maxRetries = 5
MaxRetries == 5

\* await this.page.waitForTimeout(5000)
RetryDelay == 5000

\* if (rowCount > 10)
RowThreshold == 10

\* the row selectors: 1 is 'div[role="row"]', the default; 2 is
\* 'table tbody tr'; 3 is '[class*="table"] [class*="row"]'
RowSelectors == 1..3

DivRoleRow == 1

\* what locator(selector).count() can give
RowCounts == {0, 2, 11, 12}

\* the loop over rowSelectors from selector k on: a selector whose count is
\* larger than rowCount replaces the selector in use
RECURSIVE TryOtherSelectors(_, _, _, _)
TryOtherSelectors(counts, k, rowCount, rowSelector) ==
  IF k > Len(counts) THEN [rowCount |-> rowCount, rowSelector |-> rowSelector]
  ELSE IF counts[k] > rowCount
       THEN TryOtherSelectors(counts, k + 1, counts[k], k)
  ELSE TryOtherSelectors(counts, k + 1, rowCount, rowSelector)

\* rowSelector === 'div[role="row"]' && rowCount > 0
ChecksHeader(rowSelector, rowCount) == rowSelector = DivRoleRow /\ rowCount > 0

InitRowDiscovery ==
  /\ HnIdle
  /\ OrchIdle
  /\ MergeIdle
  /\ WeIdle
  /\ ExIdle
  /\ GnIdle
  /\ TcIdle
  /\ FnIdle
  /\ TwIdle
  /\ rdPhase = "retry"
  /\ rdCounts = <<0, 0, 0>>
  /\ rdHeader \in SUBSET RowSelectors
  /\ rdRemaining \in (1..MaxLimit) \cup {Infinity}
  /\ rdRetry = 0
  /\ rdRowCount = 0
  /\ rdRowSelector = DivRoleRow
  /\ rdWaits = <<>>
  /\ rdStartIndex = 0
  /\ rdTotalRows = 0

\* one attempt: the wait, the count with the selector in use, the break
\* when it is above the threshold, else the other selectors
DiscoverAttempt ==
  /\ rdPhase = "retry"
  /\ rdRetry < MaxRetries
  /\ rdWaits' = Append(rdWaits, RetryDelay)
  /\ \E counts \in [RowSelectors -> RowCounts] :
       /\ rdCounts' = counts
       /\ IF counts[rdRowSelector] > RowThreshold
          THEN /\ rdRowCount' = counts[rdRowSelector]
               /\ rdRowSelector' = rdRowSelector
               /\ rdRetry' = rdRetry
               /\ rdPhase' = "header"
          ELSE LET other == TryOtherSelectors(counts, 1, counts[rdRowSelector],
                                             rdRowSelector)
               IN  /\ rdRowCount' = other.rowCount
                   /\ rdRowSelector' = other.rowSelector
                   /\ rdRetry' = rdRetry + 1
                   /\ rdPhase' = IF rdRetry + 1 < MaxRetries THEN "retry"
                                                            ELSE "header"
  /\ UNCHANGED <<rdHeader, rdRemaining, rdStartIndex, rdTotalRows>>
  /\ UNCHANGED <<hnVars, envVars, loopVars, pageVars, globalIndex, navVars,
                 histVars, mergeVars, weVars, exVars, gnVars, tcVars, fnVars,
                 twVars>>

\* after the loop: the header row of 'div[role="row"]' is skipped, no rows
\* ends the call, and the rows to process are limited by remainingToDownload
SkipHeaderAndLimit ==
  /\ rdPhase = "header"
  /\ LET isHeader == /\ ChecksHeader(rdRowSelector, rdRowCount)
                     /\ rdRowSelector \in rdHeader
         rowCount == IF isHeader THEN rdRowCount - 1 ELSE rdRowCount
     IN  /\ rdStartIndex' = IF isHeader THEN 1 ELSE 0
         /\ rdRowCount' = rowCount
         /\ rdTotalRows' = IF rowCount = 0 THEN 0
                           ELSE ActualRowCount(rowCount, rdRemaining)
  /\ rdPhase' = "done"
  /\ UNCHANGED <<rdCounts, rdHeader, rdRemaining, rdRetry, rdRowSelector,
                 rdWaits>>
  /\ UNCHANGED <<hnVars, envVars, loopVars, pageVars, globalIndex, navVars,
                 histVars, mergeVars, weVars, exVars, gnVars, tcVars, fnVars,
                 twVars>>

NextRowDiscovery ==
  \/ DiscoverAttempt
  \/ SkipHeaderAndLimit

SpecRowDiscovery == InitRowDiscovery /\ [][NextRowDiscovery]_vars

(***************************************************************************)
(* SpecFilename: the runs of one installation, each reaching combineFiles() *)
(* at some time and writing the merged file there.                         *)
(***************************************************************************)
\* the time at which no further run starts to merge, in milliseconds
MaxClock == 2000

\* the runs that write a merged file
MaxRuns == 3

\* how far the time moves between two looks at it, in milliseconds
TickSteps == {250, 1000}

\* taskConfig.downloadPath || './downloads/flipkart'
DownloadPath == "./downloads/flipkart"

\* new Date().toISOString().replace(/[:.]/g, '-').slice(0, 19): the first
\* 19 characters end with the seconds, the milliseconds are cut off
Timestamp(now) == now \div 1000

\* `${prefix}_${timestamp}${extension}`
GenerateMergedFilename(prefix, now, extension) ==
  <<prefix, "_", Timestamp(now), extension>>

\* path.join(this.downloadPath, outputFilename)
OutputPath(now) ==
  <<DownloadPath, GenerateMergedFilename("filflo_flipkart_po", now, ".xlsx")>>

InitFilename ==
  /\ HnIdle
  /\ OrchIdle
  /\ MergeIdle
  /\ WeIdle
  /\ ExIdle
  /\ GnIdle
  /\ TcIdle
  /\ RdIdle
  /\ TwIdle
  /\ fnClock = 0
  /\ fnOutputs = <<>>

\* time passes
Tick ==
  /\ fnClock < MaxClock
  /\ \E d \in TickSteps : fnClock' = fnClock + d
  /\ UNCHANGED fnOutputs
  /\ UNCHANGED <<hnVars, envVars, loopVars, pageVars, globalIndex, navVars,
                 histVars, mergeVars, weVars, exVars, gnVars, tcVars, rdVars,
                 twVars>>

\* combineFiles() of one more run: the name is made from the time and the
\* merged workbook is written to it
WriteMerged ==
  /\ Len(fnOutputs) < MaxRuns
  /\ fnOutputs' = Append(fnOutputs, [at |-> fnClock, path |-> OutputPath(fnClock)])
  /\ UNCHANGED fnClock
  /\ UNCHANGED <<hnVars, envVars, loopVars, pageVars, globalIndex, navVars,
                 histVars, mergeVars, weVars, exVars, gnVars, tcVars, rdVars,
                 twVars>>

NextFilename ==
  \/ Tick
  \/ WriteMerged

SpecFilename == InitFilename /\ [][NextFilename]_vars

(***************************************************************************)
(* SpecTwin: downloadAllPOsAcrossPages() run twice, page by page, against   *)
(* the same pages, limit and failures; only what getTotalPOCount() returned *)
(* differs between the two runs.                                           *)
(***************************************************************************)
\* what getTotalPOCount() can return
TotalValues == 0..MaxTotalRows

\* no "Planning to download" line: totalPOCount > 0 is false
NoPlan == 0

\* willDownload = this.maxOrders > 0
\*   ? Math.min(totalPOCount, this.maxOrders) : totalPOCount
WillDownload(totalPOCount, mo) ==
  IF totalPOCount > 0
  THEN IF mo > 0 THEN Min(totalPOCount, mo) ELSE totalPOCount
  ELSE NoPlan

\* a variant in which the loop stops at the planned number
LoopBoundPlanned(maxTo, willDownload) ==
  IF willDownload = NoPlan THEN maxTo ELSE willDownload

\* const remainingToDownload = maxToDownload - totalDownloaded: the loop
\* reads maxToDownload; willDownload is logged and not read again
LoopBound(maxTo, willDownload) == maxTo

\* the locals of downloadAllPOsAcrossPages() before the loop, with the rows
\* attempted so far
TwinStart ==
  [pc |-> "count", allDownloadedFiles |-> <<>>, totalDownloaded |-> 0,
   currentPage |-> 1, attempted |-> <<>>]

\* rows 1..n of a page, in order, leaving out the rows in skip
RECURSIVE PageRows(_, _, _, _)
PageRows(page, k, n, skip) ==
  IF k > n THEN <<>>
  ELSE (IF k \in skip THEN <<>> ELSE <<(<<page, k>>)>>)
       \o PageRows(page, k + 1, n, skip)

\* one iteration of the page loop of a run whose getTotalPOCount() gave
\* totalPOCount, on a page of rowCount rows of which those in fails do not
\* download
PageLoop(run, totalPOCount, mo, rowCount, fails, next, navigated) ==
  LET maxTo == LoopBound(MaxToDownload(mo), WillDownload(totalPOCount, mo))
      rem == Remaining(maxTo, run.totalDownloaded)
      actual == ActualRowCount(rowCount, rem)
      pageFiles == PageRows(run.currentPage, 1, actual, fails)
      total == run.totalDownloaded + DownloadedCount(pageFiles, actual)
      after == [run EXCEPT
                  !.allDownloadedFiles = Accumulate(@, pageFiles),
                  !.totalDownloaded = total,
                  !.attempted = @ \o PageRows(run.currentPage, 1, actual, {})]
  IN  IF LimitExhausted(rem) THEN [run EXCEPT !.pc = "done"]
      ELSE IF LimitReached(mo, total) \/ ~next \/ ~navigated
           THEN [after EXCEPT !.pc = "done"]
      ELSE [after EXCEPT !.currentPage = @ + 1]

InitTwin ==
  /\ HnIdle
  /\ OrchIdle
  /\ MergeIdle
  /\ WeIdle
  /\ ExIdle
  /\ GnIdle
  /\ TcIdle
  /\ RdIdle
  /\ FnIdle
  /\ twTotals = <<0, 0>>
  /\ twLimit \in 0..MaxLimit
  /\ twRuns = <<TwinStart, TwinStart>>

\* totalPOCount = await this.getTotalPOCount(), in each run
TwinTotalCount ==
  /\ \A r \in 1..2 : twRuns[r].pc = "count"
  /\ \E t1, t2 \in TotalValues : twTotals' = <<t1, t2>>
  /\ twRuns' = [r \in 1..2 |-> [twRuns[r] EXCEPT !.pc = "loop"]]
  /\ UNCHANGED twLimit
  /\ UNCHANGED <<hnVars, envVars, loopVars, pageVars, globalIndex, navVars,
                 histVars, mergeVars, weVars, exVars, gnVars, tcVars, rdVars,
                 fnVars>>

\* one iteration of the page loop in each run that is still in it, on the
\* same page with the same failures, hasNextPage() and goToNextPage()
TwinPage ==
  /\ \E r \in 1..2 : twRuns[r].pc = "loop"
  /\ \E rowCount \in 0..MaxTotalRows, next \in BOOLEAN, navigated \in BOOLEAN :
       \E fails \in SUBSET (1..rowCount) :
         /\ next => \A r \in 1..2 : twRuns[r].currentPage < MaxPages
         /\ twRuns' = [r \in 1..2 |->
              IF twRuns[r].pc = "loop"
              THEN PageLoop(twRuns[r], twTotals[r], twLimit, rowCount, fails,
                            next, navigated)
              ELSE twRuns[r]]
  /\ UNCHANGED <<twTotals, twLimit>>
  /\ UNCHANGED <<hnVars, envVars, loopVars, pageVars, globalIndex, navVars,
                 histVars, mergeVars, weVars, exVars, gnVars, tcVars, rdVars,
                 fnVars>>

NextTwin ==
  \/ TwinTotalCount
  \/ TwinPage

SpecTwin == InitTwin /\ [][NextTwin]_vars

(***************************************************************************)
(* SpecGoNext: one call of goToNextPage(), control by control.             *)
(***************************************************************************)
\* the controls goToNextPage() can click, in the order it gets to them,
\* each with the approach it belongs to: the 4 selectors of approach 1,
\* the parent of the last SVG (approach 2), the '>' text of a button
\* (approach 3), the 6 selectors of approach 4
Sites == <<1, 1, 1, 1, 2, 3, 4, 4, 4, 4, 4, 4>>

\* past the last control
NoSite == Len(Sites) + 1

\* the first control after site that belongs to a later approach
RECURSIVE NextApproach(_, _)
NextApproach(site, k) ==
  IF k > Len(Sites) THEN NoSite
  ELSE IF Sites[k] > Sites[site] THEN k
  ELSE NextApproach(site, k + 1)

\* where the call goes on when something throws at a control: approach 1
\* has one try block around its loop, approach 4 one try block per selector
AfterThrow(site) ==
  IF Sites[site] = NumApproaches THEN site + 1 ELSE NextApproach(site, site)

\* a variant that goes on to the next control when the content did not
\* change
AfterVerifyRetry(site, changed) ==
  IF changed THEN [phase |-> "returned", site |-> site]
             ELSE [phase |-> "sites", site |-> site + 1]

\* return await verifyContentChanged(): the call is over
AfterVerify(site, changed) == [phase |-> "returned", site |-> site]

InitGoNext ==
  /\ HnIdle
  /\ OrchIdle
  /\ MergeIdle
  /\ WeIdle
  /\ ExIdle
  /\ TcIdle
  /\ RdIdle
  /\ FnIdle
  /\ TwIdle
  /\ gnPhase = "start"
  /\ gnPoBefore = NullPO
  /\ gnSite = 1
  /\ gnClicks = 0
  /\ gnPolls = 0
  /\ gnPoAfter = NullPO
  /\ gnResult = "pending"

\* poBefore = await this.getFirstRowPONumber(): a PO number, or null
CapturePoBefore ==
  /\ gnPhase = "start"
  /\ gnPoBefore' \in {NullPO, FirstRowPO(1)}
  /\ gnPhase' = "sites"
  /\ UNCHANGED <<gnSite, gnClicks, gnPolls, gnPoAfter, gnResult>>
  /\ UNCHANGED <<hnVars, envVars, loopVars, pageVars, globalIndex, navVars,
                 histVars, mergeVars, weVars, exVars, tcVars, rdVars, fnVars,
                 twVars>>

\* the call is at a control: it is not visible or is disabled and the call
\* goes on to the next, or something throws (the click included), or the
\* click is done and verifyContentChanged() is called
TrySite ==
  /\ gnPhase = "sites"
  /\ gnSite <= Len(Sites)
  /\ \E out \in {"skip", "throws", "clicked"} :
       CASE out = "skip" ->
              /\ gnSite' = gnSite + 1
              /\ UNCHANGED <<gnPhase, gnClicks>>
         [] out = "throws" ->
              /\ gnSite' = AfterThrow(gnSite)
              /\ UNCHANGED <<gnPhase, gnClicks>>
         [] out = "clicked" ->
              /\ gnClicks' = gnClicks + 1
              /\ gnPhase' = "verify"
              /\ gnSite' = gnSite
  /\ gnPolls' = 0
  /\ UNCHANGED <<gnPoBefore, gnPoAfter, gnResult>>
  /\ UNCHANGED <<hnVars, envVars, loopVars, pageVars, globalIndex, navVars,
                 histVars, mergeVars, weVars, exVars, tcVars, rdVars, fnVars,
                 twVars>>

\* no control was clicked: return false
NoSiteLeft ==
  /\ gnPhase = "sites"
  /\ gnSite > Len(Sites)
  /\ gnResult' = "false"
  /\ gnPhase' = "returned"
  /\ UNCHANGED <<gnPoBefore, gnSite, gnClicks, gnPolls, gnPoAfter>>
  /\ UNCHANGED <<hnVars, envVars, loopVars, pageVars, globalIndex, navVars,
                 histVars, mergeVars, weVars, exVars, tcVars, rdVars, fnVars,
                 twVars>>

\* one iteration of the loop of verifyContentChanged(): a second later the
\* fingerprint is read; if it is a PO number other than poBefore, true
Poll ==
  /\ gnPhase = "verify"
  /\ gnPolls < MaxPolls
  /\ gnPolls' = gnPolls + 1
  /\ \E after \in {NullPO, FirstRowPO(1), FirstRowPO(2)} :
       /\ gnPoAfter' = after
       /\ IF ContentChanged(after, gnPoBefore)
          THEN /\ gnResult' = "true"
               /\ gnPhase' = AfterVerify(gnSite, TRUE).phase
               /\ gnSite' = AfterVerify(gnSite, TRUE).site
          ELSE UNCHANGED <<gnResult, gnPhase, gnSite>>
  /\ UNCHANGED <<gnPoBefore, gnClicks>>
  /\ UNCHANGED <<hnVars, envVars, loopVars, pageVars, globalIndex, navVars,
                 histVars, mergeVars, weVars, exVars, tcVars, rdVars, fnVars,
                 twVars>>

\* the loop of verifyContentChanged() is over: false, which the call
\* returns
VerifyExhausted ==
  /\ gnPhase = "verify"
  /\ gnPolls = MaxPolls
  /\ gnResult' = IF AfterVerify(gnSite, FALSE).phase = "returned"
                 THEN "false" ELSE gnResult
  /\ gnPhase' = AfterVerify(gnSite, FALSE).phase
  /\ gnSite' = AfterVerify(gnSite, FALSE).site
  /\ UNCHANGED <<gnPoBefore, gnClicks, gnPolls, gnPoAfter>>
  /\ UNCHANGED <<hnVars, envVars, loopVars, pageVars, globalIndex, navVars,
                 histVars, mergeVars, weVars, exVars, tcVars, rdVars, fnVars,
                 twVars>>

NextGoNext ==
  \/ CapturePoBefore
  \/ TrySite
  \/ NoSiteLeft
  \/ Poll
  \/ VerifyExhausted

SpecGoNext == InitGoNext /\ [][NextGoNext]_vars

(***************************************************************************)
(* SpecExecute: BaseTask.execute() of the combined task: initialize(), the *)
(* login, run() of the download task with the list of artifacts as an      *)
(* input, cleanup(), and the catch block.                                  *)
(***************************************************************************)
\* the paths of the artifacts a run can return
PathPool == 1..MaxFiles

Range(q) == {q[k] : k \in 1..Len(q)}

InitExecute ==
  /\ HnIdle
  /\ OrchIdle
  /\ MergeIdle
  /\ WeIdle
  /\ PartsIdle
  /\ exPc = "initialize"
  /\ browser = "null"
  /\ hasPage = FALSE
  /\ exError = "none"
  /\ exOutcome = Running
  /\ runReturn = "none"
  /\ runFiles = <<>>
  /\ onDisk = {}
  /\ tempDir = FALSE
  /\ unlinkTried = <<>>
  /\ rmdirTried = FALSE
  /\ outputWritten = FALSE

\* control enters the catch block of execute() with the error
Caught(error) ==
  /\ exPc' = "catch"
  /\ exError' = error

\* initialize(): chromium.launch(), browser.newContext(), context.newPage();
\* each can throw, which leaves the fields after it unset
Initialize ==
  /\ exPc = "initialize"
  /\ \E step \in {"launchThrows", "newContextThrows", "newPageThrows", "ok"} :
       /\ browser' = IF step = "launchThrows" THEN "null" ELSE "open"
       /\ hasPage' = (step = "ok")
       /\ IF step = "ok"
          THEN exPc' = "login" /\ exError' = exError
          ELSE Caught("initialize")
  /\ UNCHANGED <<exOutcome, runReturn, runFiles, onDisk, tempDir, unlinkTried,
                 rmdirTried, outputWritten>>
  /\ UNCHANGED <<hnVars, envVars, loopVars, pageVars, globalIndex, navVars,
                 histVars, mergeVars, weVars,
                 gnVars, tcVars, rdVars, fnVars, twVars>>

\* a variant in which a sub-step closes the session it was handed
SubtaskSessionClosed(session) == "closed"

\* setBrowserContext(this.browser, this.context, this.page) and run() of a
\* sub-step: it works on the session handed to it, launching and closing
\* nothing; the session it leaves behind
SubtaskSession(session) == session

\* run() of the combined task, phase 1: loginTask.run() returns or throws
LoginRun ==
  /\ exPc = "login"
  /\ browser' = SubtaskSession(browser)
  /\ \E ok \in BOOLEAN :
       IF ok THEN exPc' = "navigate" /\ exError' = exError
             ELSE Caught("login")
  /\ UNCHANGED <<hasPage, exOutcome, runReturn, runFiles, onDisk,
                 tempDir, unlinkTried, rmdirTried, outputWritten>>
  /\ UNCHANGED <<hnVars, envVars, loopVars, pageVars, globalIndex, navVars,
                 histVars, mergeVars, weVars,
                 gnVars, tcVars, rdVars, fnVars, twVars>>

\* run() of the download task: ensureDirectoriesExist(), navigateToPOList()
NavigateToPOList ==
  /\ exPc = "navigate"
  /\ browser' = SubtaskSession(browser)
  /\ tempDir' = TRUE
  /\ \E ok \in BOOLEAN :
       IF ok THEN exPc' = "download" /\ exError' = exError /\ runReturn' = runReturn
             ELSE Caught("navigate") /\ runReturn' = "raised"
  /\ UNCHANGED <<hasPage, exOutcome, runFiles, onDisk, unlinkTried,
                 rmdirTried, outputWritten>>
  /\ UNCHANGED <<hnVars, envVars, loopVars, pageVars, globalIndex, navVars,
                 histVars, mergeVars, weVars,
                 gnVars, tcVars, rdVars, fnVars, twVars>>

\* if (downloadedFiles.length === 0) return; else combineFiles()
AfterDownload(files) == IF Len(files) = 0 THEN "close" ELSE "combine"

\* downloadedFiles = await this.downloadAllPOsAcrossPages(): the list it
\* returns (Spec) is an input here, and the files of the list are in the
\* temporary directory; with an empty list run() returns
DownloadAll ==
  /\ exPc = "download"
  /\ browser' = SubtaskSession(browser)
  /\ \E files \in SeqsUpTo(PathPool, MaxFiles) :
       /\ runFiles' = files
       /\ onDisk' = Range(files)
       /\ exPc' = AfterDownload(files)
       /\ runReturn' = IF Len(files) = 0 THEN "noFiles" ELSE runReturn
  /\ UNCHANGED <<hasPage, exError, exOutcome, tempDir, unlinkTried,
                 rmdirTried, outputWritten>>
  /\ UNCHANGED <<hnVars, envVars, loopVars, pageVars, globalIndex, navVars,
                 histVars, mergeVars, weVars,
                 gnVars, tcVars, rdVars, fnVars, twVars>>

\* a variant that goes on to the cleanup whether or not the merge raised
AfterCombineAlways(merged) == "unlink"

\* combinedFile = await this.combineFiles(...); this.cleanupTempFiles(...):
\* the cleanup is reached only when combineFiles() did not throw
AfterCombine(merged) == IF merged THEN "unlink" ELSE "catch"

\* combineFiles(): flattenAndMergePoFiles() (SpecMerge) writes the workbook
\* or throws
CombineFiles ==
  /\ exPc = "combine"
  /\ \E merged \in BOOLEAN :
       /\ outputWritten' = merged
       /\ exPc' = AfterCombine(merged)
       /\ exError' = IF merged THEN exError ELSE "merge"
       /\ runReturn' = IF merged THEN runReturn ELSE "raised"
  /\ UNCHANGED <<browser, hasPage, exOutcome, runFiles, onDisk, tempDir,
                 unlinkTried, rmdirTried>>
  /\ UNCHANGED <<hnVars, envVars, loopVars, pageVars, globalIndex, navVars,
                 histVars, mergeVars, weVars,
                 gnVars, tcVars, rdVars, fnVars, twVars>>

\* cleanupTempFiles(), one iteration of the loop over the files: a file
\* that exists is unlinked, or unlinkSync() throws, which is caught
UnlinkFile ==
  /\ exPc = "unlink"
  /\ Len(unlinkTried) < Len(runFiles)
  /\ LET file == runFiles[Len(unlinkTried) + 1]
     IN  /\ unlinkTried' = Append(unlinkTried, file)
         /\ \E ok \in BOOLEAN :
              onDisk' = IF file \in onDisk /\ ok THEN onDisk \ {file}
                                                ELSE onDisk
  /\ UNCHANGED <<exPc, browser, hasPage, exError, exOutcome, runReturn,
                 runFiles, tempDir, rmdirTried, outputWritten>>
  /\ UNCHANGED <<hnVars, envVars, loopVars, pageVars, globalIndex, navVars,
                 histVars, mergeVars, weVars,
                 gnVars, tcVars, rdVars, fnVars, twVars>>

\* cleanupTempFiles(), after the loop: rmdirSync() removes the directory if
\* it is empty, or throws, which is ignored; run() returns
RemoveTempDir ==
  /\ exPc = "unlink"
  /\ Len(unlinkTried) = Len(runFiles)
  /\ rmdirTried' = TRUE
  /\ \E ok \in BOOLEAN :
       tempDir' = IF tempDir /\ onDisk = {} /\ ok THEN FALSE ELSE tempDir
  /\ runReturn' = "completed"
  /\ exPc' = "close"
  /\ UNCHANGED <<browser, hasPage, exError, exOutcome, runFiles, onDisk,
                 unlinkTried, outputWritten>>
  /\ UNCHANGED <<hnVars, envVars, loopVars, pageVars, globalIndex, navVars,
                 histVars, mergeVars, weVars,
                 gnVars, tcVars, rdVars, fnVars, twVars>>

\* cleanup() in the try block: browser.close() resolves and execute()
\* returns, or it throws and the catch block is entered
Cleanup ==
  /\ exPc = "close"
  /\ \E ok \in BOOLEAN :
       IF ok
       THEN /\ browser' = "closed"
            /\ exPc' = "done"
            /\ exOutcome' = [k |-> "returned", err |-> "none"]
            /\ exError' = exError
       ELSE /\ browser' = browser
            /\ Caught("close")
            /\ exOutcome' = exOutcome
  /\ UNCHANGED <<hasPage, runReturn, runFiles, onDisk, tempDir, unlinkTried,
                 rmdirTried, outputWritten>>
  /\ UNCHANGED <<hnVars, envVars, loopVars, pageVars, globalIndex, navVars,
                 histVars, mergeVars, weVars,
                 gnVars, tcVars, rdVars, fnVars, twVars>>

\* the catch block up to the screenshot: if (this.page) takeScreenshot();
\* page.screenshot() can throw, and that error leaves execute() at once
TakeScreenshot ==
  /\ exPc = "catch"
  /\ \E shot \in BOOLEAN :
       IF hasPage /\ ~shot
       THEN /\ exPc' = "done"
            /\ exOutcome' = [k |-> "raised", err |-> "screenshot"]
       ELSE /\ exPc' = "closeAfterError"
            /\ exOutcome' = exOutcome
  /\ UNCHANGED <<browser, hasPage, exError, runReturn, runFiles, onDisk,
                 tempDir, unlinkTried, rmdirTried, outputWritten>>
  /\ UNCHANGED <<hnVars, envVars, loopVars, pageVars, globalIndex, navVars,
                 histVars, mergeVars, weVars,
                 gnVars, tcVars, rdVars, fnVars, twVars>>

\* the catch block after the screenshot: cleanup(), then throw error;
\* browser.close() can throw, and then that error leaves execute()
CleanupAfterError ==
  /\ exPc = "closeAfterError"
  /\ \E ok \in BOOLEAN :
       IF browser = "null" \/ ok
       THEN /\ browser' = IF browser = "null" THEN "null" ELSE "closed"
            /\ exOutcome' = [k |-> "raised", err |-> exError]
       ELSE /\ browser' = browser
            /\ exOutcome' = [k |-> "raised", err |-> "close"]
  /\ exPc' = "done"
  /\ UNCHANGED <<hasPage, exError, runReturn, runFiles, onDisk, tempDir,
                 unlinkTried, rmdirTried, outputWritten>>
  /\ UNCHANGED <<hnVars, envVars, loopVars, pageVars, globalIndex, navVars,
                 histVars, mergeVars, weVars,
                 gnVars, tcVars, rdVars, fnVars, twVars>>

NextExecute ==
  \/ Initialize
  \/ LoginRun
  \/ NavigateToPOList
  \/ DownloadAll
  \/ CombineFiles
  \/ UnlinkFile
  \/ RemoveTempDir
  \/ Cleanup
  \/ TakeScreenshot
  \/ CleanupAfterError

SpecExecute == InitExecute /\ [][NextExecute]_vars

(***************************************************************************)
(* Claims about hasNextPage() (SpecHasNext).                               *)
(***************************************************************************)
\* the number a digit string of Nums denotes
Val(d) == IF d = <<9>> THEN 9 ELSE 10

HasFrag(frs, type) == \E k \in 1..Len(frs) : frs[k].t = type

FirstFrag(frs, type) ==
  frs[CHOOSE k \in 1..Len(frs) :
        frs[k].t = type /\ \A j \in 1..(k - 1) : frs[j].t # type]

\* the text holds a range "A-B of C" and no "X of Y pages"
RangeTextOnly ==
  /\ hnReadable
  /\ HasFrag(hnFrags, "range")
  /\ ~HasFrag(hnFrags, "pagesOf")
  /\ ~HasFrag(hnFrags, "pagesWord")

\* C8: on a text with a range "A-B of C" and no "X of Y pages",
\* hasNextPage() returns true exactly when B < C, whatever the next-page
\* controls are, and does not consult them.
C8_RangeDecides ==
  (hnOut # NotCalled /\ RangeTextOnly) =>
    LET f == FirstFrag(hnFrags, "range")
    IN  /\ hnOut.ret = (Val(f.n1) < Val(f.n2))
        /\ hnOut.fallback = FALSE

\* "Showing 1-9 of 9" with an enabled next-page control: false
C8_Witness ==
  /\ hnOut # NotCalled
  /\ RangeTextOnly
  /\ FirstFrag(hnFrags, "range").n1 = FirstFrag(hnFrags, "range").n2
  /\ \E k \in 1..Len(hnCands) : hnCands[k] = "enabled"
  /\ hnOut.ret = FALSE

\* C9: when no text pattern resolves and no candidate control is established
\* as visible and enabled, hasNextPage() returns false (fail-closed), also
\* when the text cannot be read or a disabled check cannot be evaluated.
C9_FailClosed ==
  ( /\ hnOut # NotCalled
    /\ TextVerdict(hnReadable, hnText).by = "none"
    /\ \A k \in 1..Len(hnCands) : hnCands[k] # "enabled" ) =>
    hnOut.ret = FALSE

\* C10: the first of the patterns "X of Y pages", "A-B of C", "Page X of Y"
\* that matches the text decides (X < Y, B < C, X < Y), and the next-page
\* controls are consulted only when none of the three matches.
C10_FirstPatternDecides ==
  (hnOut # NotCalled /\ hnReadable) =>
    LET pagesMatch == MatchIndex(hnText, PagesPattern)
        rangeMatch == MatchIndex(hnText, RangePattern)
        pageMatch  == MatchIndex(hnText, PagePattern)
    IN  IF pagesMatch # NoMatch
        THEN /\ ~hnOut.fallback
             /\ hnOut.ret = (Group(hnText, pagesMatch, PagesPattern, 1)
                               < Group(hnText, pagesMatch, PagesPattern, 2))
        ELSE IF rangeMatch # NoMatch
        THEN /\ ~hnOut.fallback
             /\ hnOut.ret = (Group(hnText, rangeMatch, RangePattern, 2)
                               < Group(hnText, rangeMatch, RangePattern, 3))
        ELSE IF pageMatch # NoMatch
        THEN /\ ~hnOut.fallback
             /\ hnOut.ret = (Group(hnText, pageMatch, PagePattern, 1)
                               < Group(hnText, pageMatch, PagePattern, 2))
        ELSE hnOut.fallback

(***************************************************************************)
(* Claims about the page loop, the row loop and goToNextPage() (Spec).     *)
(***************************************************************************)
\* successful downloads so far: those of the pages done and of this page
Downloaded == totalDownloaded + Len(downloadedFiles)

LimitHit == maxOrders > 0 /\ Downloaded >= maxOrders

\* C1: with a limit L > 0 the successful downloads never exceed L, and once
\* they equal L no row is attempted or triggered, hasNextPage() is not
\* consulted and no page transition is attempted, whatever the layout and
\* the row failures.
C1_LimitNeverExceeded ==
  /\ [](maxOrders > 0 => Downloaded <= maxOrders)
  /\ [][LimitHit => ~(RowStep \/ CheckNextPage \/ NavTrigger \/ NavVerify)]_vars

\* limit 2 reached on page 1 of 2: two artifacts returned, page 2 never shown
C1_Witness ==
  /\ maxOrders = 2
  /\ Len(rowsOn) = 2
  /\ stopReason = "limit"
  /\ Len(returned) = 2
  /\ uiPage = 1
  /\ currentPage = 1

\* C2: with limit 0 the limit never ends the page loop: the loop ends only
\* when hasNextPage() returned false or goToNextPage() returned false, and
\* goToNextPage() is only entered after hasNextPage() returned true.
C2_UnboundedUntilNoNext ==
  maxOrders = 0 =>
    /\ stopReason \in {"none", "noNext", "navFailed"}
    /\ stopReason = "noNext" => ~hasNext
    /\ stopReason = "navFailed" => (hasNext /\ navState = "false")
    /\ pc \in {"goNext", "verify"} => hasNext

\* limit 0, two pages processed, stopped because hasNextPage() was false
C2_Witness ==
  /\ maxOrders = 0
  /\ currentPage = 2
  /\ stopReason = "noNext"
  /\ Len(returned) >= 2

\* C3: no row is triggered more than once, and every artifact saved is the
\* transfer of the row it was saved for, each row's transfer saved at most
\* once.
C3_ExactlyOnce ==
  /\ ~reclicked
  /\ \A k \in 1..Len(saved) : saved[k].for = saved[k].src
  /\ \A k, m \in 1..Len(saved) : saved[k].src = saved[m].src => k = m

\* C4: a failure on one row never aborts the page: while rows of the page
\* are still to be attempted or awaited the run has not ended.
C4_PageNeverAborted ==
  pc \in {"rows", "wait"} => ~crashed

\* C5: a row failure does not stop pagination: once goToNextPage() has
\* succeeded the run does not end before the rows of the page it moved to
\* are attempted.
C5_NextPageAttempted ==
  ~( /\ crashed
     /\ currentPage >= 2
     /\ \/ pc = "loop"
        \/ pc = "rows" /\ i = 0 /\ totalRows > 0 )

C7_NavFailureReturnsAll ==
  stopReason = "navFailed" =>
    /\ navState = "false"
    /\ returned = saved
    /\ pc \in {"combine", "noFiles"}
    /\ saved # <<>> => pc = "combine"

\* on page 2 the control was clicked, the fingerprint never changed: the
\* artifacts of page 1 and page 2 are returned
C7_Witness ==
  /\ stopReason = "navFailed"
  /\ navClicked
  /\ Len(returned) = 2
  /\ returned[1].for[1] = 1
  /\ returned[2].for[1] = 2
  /\ pc = "combine"

\* C11: on a finite source the page loop eventually ends and returns to
\* run(), for every limit and every pattern of row failures.
C11_Terminates == <>(pc \in {"combine", "noFiles"})

\* C12: the row loop is left only when every selected row of the page has
\* been attempted and no wait is pending; the page shown changes only
\* during the wait of goToNextPage() and only to the next page; the page
\* counter advances only by one and only when goToNextPage() returned true;
\* rows are attempted only on pages reached by verified transitions.
C12_InSequence ==
  /\ [][(pc \in {"rows", "wait"} /\ pc' \notin {"rows", "wait"})
         => (pc = "rows" /\ i = totalRows)]_vars
  /\ [][uiPage' # uiPage => (pc = "verify" /\ uiPage' = uiPage + 1)]_vars
  /\ [][currentPage' # currentPage
         => (pc = "verify" /\ navState' = "true"
               /\ currentPage' = currentPage + 1)]_vars
  /\ [](pc \in {"rows", "wait"} => uiPage <= currentPage)

\* page 1 had a row that failed and one that was saved; after the verified
\* transition a row of page 2 is awaited
C12_Witness ==
  /\ pc = "wait"
  /\ uiPage = 2
  /\ currentPage = 2
  /\ rowsOn[1] = 2
  /\ Len(allDownloadedFiles) = 1

\* C13: every row attempt gets a global index larger than the one of the
\* attempt before it, within a page and from one page to the next.
C13_IndexIncreasing == [][RowStep => globalIndex' > globalIndex]_vars

\* C14: the artifacts saved in a run have pairwise distinct paths, so that
\* no save overwrites an earlier one and the returned list names no path
\* twice.
C14_UniquePaths ==
  /\ \A k, m \in 1..Len(saved) : saved[k].path = saved[m].path => k = m
  /\ \A k, m \in 1..Len(returned) :
        returned[k].path = returned[m].path => k = m

\* the waitForEvent('download') promises that are pending: the one the row
\* loop awaits, and at least one more when a click threw after its wait was
\* registered
WaitsOutstanding ==
  (IF pc = "wait" THEN 1 ELSE 0) + (IF dangling THEN 1 ELSE 0)

\* C26: at any moment at most one wait for an artifact transfer is
\* outstanding: the wait of a row is over before the trigger of the next
\* row is clicked, also when the click of the row failed.
C26_OneWaitOutstanding == WaitsOutstanding <= 1

(***************************************************************************)
(* Claims about flattenAndMergePoFiles() (SpecMerge).                      *)
(***************************************************************************)
Written == mergeState = "written"

\* every document of the list is a purchase order and was read
AllPurchaseOrders ==
  /\ unread = {}
  /\ \A k \in 1..Len(filePaths) : filePaths[k].labels # <<>>

\* the labels of q that are not in seen, in order
RECURSIVE Unseen(_, _)
Unseen(q, seen) ==
  IF q = <<>> THEN <<>>
  ELSE IF Head(q) \in seen THEN Unseen(Tail(q), seen)
  ELSE <<Head(q)>> \o Unseen(Tail(q), seen \cup {Head(q)})

\* the line-item headers of the documents, each once, in first-seen order
RECURSIVE UnionHeaders(_, _)
UnionHeaders(docs, acc) ==
  IF docs = <<>> THEN acc
  ELSE UnionHeaders(Tail(docs),
                    acc \o Unseen(HeaderRow(Head(docs).labels), Range(acc)))

\* C15: the header row of the merged output is the 6 metadata headers
\* followed by the union of the documents' line-item headers, each once,
\* in first-seen order.
C15_UnionSchema ==
  (Written /\ AllPurchaseOrders) =>
    LET union == UnionHeaders(filePaths, <<>>)
    IN  /\ allRows[1] = MetadataHeaders \o union
        /\ Len(allRows[1]) = 6 + Cardinality(Range(union))
        /\ \A k, m \in 1..Len(allRows[1]) :
             allRows[1][k] = allRows[1][m] => k = m

\* a value of a line item: a string made of its label and a tag
IsValue(c) == c.t = "str" /\ c.s # "" /\ c.n # 0

\* no cell, or an empty one, at position p of the row
EmptyAt(row, p) == p > Len(row) \/ row[p] \in {Str(""), Undefined}

\* C16: in the merged output every line-item value stands under the header
\* of its own label, and a row has an empty cell under every header its
\* document does not have.
C16_ValuesUnderOwnHeader ==
  (Written /\ AllPurchaseOrders) =>
    \A k \in 2..Len(allRows) :
      /\ \A p \in 7..Len(allRows[k]) :
           IsValue(allRows[k][p]) =>
             (p <= Len(allRows[1]) /\ allRows[1][p] = Str(allRows[k][p].s))
      /\ \A p \in 7..Len(allRows[1]) :
           allRows[1][p].s \notin
               Range(filePaths[rowOrigin[k].doc].labels) \cup {"S. no."}
             => EmptyAt(allRows[k], p)

\* C17: every data row of the merged output has as many cells as the
\* header row.
C17_SameWidth ==
  (Written /\ AllPurchaseOrders) =>
    \A k \in 2..Len(allRows) : Len(allRows[k]) = Len(allRows[1])

\* the 6 metadata values of document po, in the order of the metadata headers
DocMetadata(po) ==
  << Tagged("PO", po), Tagged("CAT", po), Tagged("DATE", po),
     Tagged("EXP", po), Tagged("SUP", po), Tagged("TERM", po) >>

\* the position in the body of the first 'Total' row, or one past its end
RECURSIVE MarkerPos(_, _)
MarkerPos(body, k) ==
  IF k > Len(body) THEN k
  ELSE IF body[k].k = "total" THEN k
  ELSE MarkerPos(body, k + 1)

\* the line items of a document: the numbered rows above the first 'Total'
LineItemsOf(doc) ==
  SelectSeq(SubSeq(doc.body, 1, MarkerPos(doc.body, 1) - 1),
            LAMBDA b : b.k \in {"item", "digits"})

\* the data rows the document is to give
ExpectedRows(doc) ==
  [k \in 1..Len(LineItemsOf(doc)) |->
     DocMetadata(doc.po) \o BodyRow(doc.po, doc.labels, LineItemsOf(doc)[k])]

RECURSIVE ExpectedBody(_)
ExpectedBody(docs) ==
  IF docs = <<>> THEN <<>>
  ELSE ExpectedRows(Head(docs)) \o ExpectedBody(Tail(docs))

\* every document was read and has the line-item headers A, B
SameHeaders ==
  /\ unread = {}
  /\ \A k \in 1..Len(filePaths) : filePaths[k].labels = <<"A", "B">>

\* C18: for documents that share the line-item headers the merged output is
\* the 6 metadata headers and the shared headers, then one row per line
\* item: the document's 6 metadata values followed by the cells of the row.
C18_SharedHeadersMerge ==
  (Written /\ SameHeaders) =>
    allRows = <<MetadataHeaders \o HeaderRow(<<"A", "B">>)>>
                \o ExpectedBody(filePaths)

\* three documents of two line items each: 1 + 6 rows
C18_Witness ==
  /\ Written
  /\ SameHeaders
  /\ Len(filePaths) = 3
  /\ \A k \in 1..3 : Len(LineItemsOf(filePaths[k])) = 2
  /\ filePaths[1].po # filePaths[2].po
  /\ Len(allRows) = 7

\* C19: of a document with a header row, no row at or below the first row
\* whose first cell holds 'Total' is in the merged output.
C19_StopsAtMarker ==
  \A k \in 1..Len(rowOrigin) :
    LET doc == filePaths[rowOrigin[k].doc]
    IN  (~rowOrigin[k].hdr /\ doc.labels # <<>>)
          => rowOrigin[k].row < Len(MetaBlock(doc.po)) + 1
                                  + MarkerPos(doc.body, 1)

\* a document with a 'Total' row above a row numbered 2 was merged: only
\* its line item above the marker is in the output
C19_Witness ==
  /\ Written
  /\ Len(filePaths) = 1
  /\ filePaths[1].body = <<Body("item", 1), Body("total", 0), Body("item", 2)>>
  /\ Len(allRows) = 2

\* C20: the merged output is one header row, first, then the data rows in
\* the order of the documents and, within a document, of its rows.
C20_HeaderFirstOnce ==
  Written =>
    /\ rowOrigin[1].hdr
    /\ \A k \in 2..Len(rowOrigin) : ~rowOrigin[k].hdr
    /\ \A k, m \in 2..Len(rowOrigin) :
         k < m => \/ rowOrigin[k].doc < rowOrigin[m].doc
                  \/ /\ rowOrigin[k].doc = rowOrigin[m].doc
                     /\ rowOrigin[k].row < rowOrigin[m].row

\* C22: a merge that finds no data row below the header (every document
\* has a header row and no line item) fails and writes no output: an output
\* that was written has a data row.
C22_NoRowsNoOutput ==
  Written => \E k \in 1..Len(rowOrigin) : ~rowOrigin[k].hdr

\* the rows of allRows that are not the header row, in order
RECURSIVE DataRowsFrom(_)
DataRowsFrom(k) ==
  IF k > Len(allRows) THEN <<>>
  ELSE IF rowOrigin[k].hdr THEN DataRowsFrom(k + 1)
  ELSE <<allRows[k]>> \o DataRowsFrom(k + 1)

\* the rows of the documents k.. of the list that were read, in order
RECURSIVE RowsOfRead(_)
RowsOfRead(k) ==
  IF k > Len(filePaths) THEN <<>>
  ELSE IF k \in unread THEN RowsOfRead(k + 1)
  ELSE FlattenPoData(filePaths[k].data).rows \o RowsOfRead(k + 1)

\* the merge is over: the output was written, or the merge raised
MergeOver == mergeState \in {"written", "threw"}

\* C23: a document that cannot be read, or has no rows, is skipped: no row
\* of the output is from it, the rows of every other document are in the
\* output in the order of the documents, and the merge raises only when the
\* list is empty or no document gave a row or a header.
C23_SkippedDocumentOnly ==
  /\ \A k \in 1..Len(rowOrigin) :
        /\ rowOrigin[k].doc \notin unread
        /\ Len(filePaths[rowOrigin[k].doc].data) > 0
  /\ MergeOver =>
        /\ DataRowsFrom(1) = RowsOfRead(1)
        /\ \A k, m \in 1..Len(rowOrigin) :
              k < m => rowOrigin[k].doc <= rowOrigin[m].doc
        /\ mergeState = "threw" => (allRows = <<>> /\ RowsOfRead(1) = <<>>)

\* of three documents the second could not be read, or was empty: the two
\* line items of the first and of the third are below the header row
C23_Witness ==
  /\ Written
  /\ Len(filePaths) = 3
  /\ unread = {2} \/ (unread = {} /\ Len(filePaths[2].data) = 0)
  /\ filePaths[1].po = 1
  /\ filePaths[3].po = 2
  /\ Len(allRows) = 5
  /\ rowOrigin[5].doc = 3

\* the cell holds a positive integer: a number, or a string of digits
PositiveInteger(c) ==
  \/ c.t = "num" /\ c.n > 0
  \/ c.t = "str" /\ c.s = "" /\ c.n > 0

\* C29: a row below the header row of a purchase order is in the output
\* only if its first cell holds a positive integer: no row numbered 0 or
\* by a negative number is emitted.
C29_PositiveSerialOnly ==
  \A k \in 1..Len(rowOrigin) :
    LET doc == filePaths[rowOrigin[k].doc]
    IN  (~rowOrigin[k].hdr /\ doc.labels # <<>>)
          => PositiveInteger(FirstCell(doc.data[rowOrigin[k].row]))

\* the 6 metadata values a data row of the document is to start with: the
\* values of a purchase order, empty strings for a document without labels
MetadataOf(doc) ==
  IF doc.labels # <<>> THEN DocMetadata(doc.po)
  ELSE [p \in 1..6 |-> Str("")]

\* C30: every data row of the output, of whatever document (one with no
\* header row included), starts with the 6 metadata values of its document,
\* each a string, the empty string where the document has no such label.
C30_MetadataInEveryRow ==
  \A k \in 1..Len(rowOrigin) :
    ~rowOrigin[k].hdr =>
      /\ Len(allRows[k]) >= 6
      /\ SubSeq(allRows[k], 1, 6) = MetadataOf(filePaths[rowOrigin[k].doc])

(***************************************************************************)
(* Claims about BaseTask.waitForElement() (SpecWaitForElement).            *)
(***************************************************************************)
\* C27: waitForElement() tries the selectors in the order given, each with
\* the timeout divided by the number of selectors, and returns the first
\* that matches: none is tried after a match, and a selector that fails
\* does not keep the later ones from being tried.
C27_InOrderFirstMatch ==
  LET given == IF weArg.isArray THEN weArg.items ELSE <<weArg.items[1]>>
      n == Len(given)
  IN  /\ Len(weTried) <= n
      /\ \A k \in 1..Len(weTried) :
            /\ weTried[k].sel = given[k]
            /\ weTried[k].timeout = [num |-> weTimeout, den |-> n]
            /\ k < Len(weTried) => ~weTried[k].found
      /\ weResult.k = "returned" =>
            /\ weTried[Len(weTried)].found
            /\ weResult.sel = given[Len(weTried)]
      /\ weResult.k \in {"pending", "threw"} =>
            \A k \in 1..Len(weTried) : ~weTried[k].found
      /\ weResult.k = "threw" => Len(weTried) = n

\* of three selectors the first two timed out and the third matched
C27_Witness ==
  /\ weResult.k = "returned"
  /\ weArg.isArray
  /\ Len(weArg.items) = 3
  /\ Len(weTried) = 3
  /\ weArg.items[1] # weArg.items[3]
  /\ weResult.sel = weArg.items[3]

\* C28: when no selector matched, waitForElement() gives its caller a
\* not-found value and raises nothing.
C28_NotFoundNoRaise == Len(weTried) > 0 => weResult.k # "threw"

(***************************************************************************)
(* Claims about execute() and run() (SpecExecute).                         *)
(***************************************************************************)
\* downloadAllPOsAcrossPages() returned an empty list
ZeroArtifacts == runReturn = "noFiles"

\* C21: a run in which no artifact was downloaded writes no output file and
\* ends with an error raised to the caller.
C21_ZeroArtifactsRaise ==
  ZeroArtifacts =>
    /\ ~outputWritten
    /\ exPc = "done" => exOutcome.k = "raised"

\* C24: temporary artifacts are deleted only after the merge succeeded:
\* when the merge raised nothing is deleted; after a merge that succeeded
\* every file of the list and the directory are gone through, and a
\* deletion that fails does not make the run fail.
C24_CleanupAfterMerge ==
  /\ (unlinkTried # <<>> \/ rmdirTried \/ onDisk # Range(runFiles))
        => outputWritten
  /\ runReturn = "raised" => onDisk = Range(runFiles)
  /\ outputWritten => (exPc = "unlink" \/ runReturn = "completed")
  /\ runReturn = "completed" => (unlinkTried = runFiles /\ rmdirTried)
  /\ (outputWritten /\ exOutcome.k = "raised")
        => exOutcome.err \in {"close", "screenshot"}

\* the merge succeeded, one of two files could not be deleted and the
\* directory stayed: run() completed and execute() returned
C24_Witness ==
  /\ exPc = "done"
  /\ outputWritten
  /\ Len(runFiles) = 2
  /\ Cardinality(onDisk) = 1
  /\ tempDir
  /\ runReturn = "completed"
  /\ exOutcome.k = "returned"

\* C25: when execute() is over and browser.close() itself did not throw,
\* no browser is left open, and an error execute() raises is the error its
\* catch block caught, also when the screenshot failed.
C25_SessionTornDown ==
  (exPc = "done" /\ exOutcome.err # "close") =>
    /\ browser # "open"
    /\ exOutcome.k = "raised" => exOutcome.err = exError

\* C35: the browser is launched at most once per execute(), by
\* initialize(), and closed only by cleanup() of the top-level task; the
\* login and download sub-steps leave the session as it was handed to them.
C35_OneSessionOwner ==
  [][/\ browser' # browser =>
          exPc \in {"initialize", "close", "closeAfterError"}
     /\ (browser' = "open" /\ browser # "open") =>
          (browser = "null" /\ exPc = "initialize")
     /\ browser # "null" => browser' # "null"]_vars

C35_Witness ==
  /\ exPc = "done"
  /\ runReturn = "completed"
  /\ Len(runFiles) > 0
  /\ browser = "closed"

(***************************************************************************)
(* Further claims about flattenAndMergePoFiles() (SpecMerge).              *)
(***************************************************************************)
\* the headers of the first document from position k on that was read and
\* gives a header list that is not empty; none: the empty list
RECURSIVE FirstHeaders(_)
FirstHeaders(k) ==
  IF k > Len(filePaths) THEN <<>>
  ELSE IF k \notin unread /\ Len(FlattenPoData(filePaths[k].data).headers) > 0
       THEN FlattenPoData(filePaths[k].data).headers
  ELSE FirstHeaders(k + 1)

\* C40: the output header is the header list of the first processed
\* document that has one; once set it is never changed or extended, and the
\* headers of later documents are not in the output.
C40_HeaderFixedByFirst ==
  /\ [][outputHeaders # <<>> => outputHeaders' = outputHeaders]_vars
  /\ [](MergeOver =>
         /\ outputHeaders = FirstHeaders(1)
         /\ \A k \in 1..Len(rowOrigin) :
              rowOrigin[k].hdr => allRows[k] = outputHeaders
         /\ \A k, m \in 1..Len(rowOrigin) :
              (rowOrigin[k].hdr /\ rowOrigin[m].hdr) => k = m)

\* a document with the labels A B, then one with the labels B C: the
\* header of the output is the one of the first
C40_Witness ==
  /\ Written
  /\ Len(filePaths) = 2
  /\ unread = {}
  /\ filePaths[1].labels = <<"A", "B">>
  /\ filePaths[2].labels = <<"B", "C">>
  /\ outputHeaders = MetadataHeaders \o HeaderRow(<<"A", "B">>)
  /\ Len(allRows) = 4

(***************************************************************************)
(* Further claims about the run (Spec).                                    *)
(***************************************************************************)
\* C36: at every point of the page loop the download counter is the number
\* of paths accumulated, and what a page adds to it is the number of its
\* rows whose artifact was saved: a row that was attempted and failed adds
\* nothing to either.
C36_CounterIsListLength ==
  /\ totalDownloaded = Len(allDownloadedFiles)
  /\ Len(saved) = totalDownloaded + Len(downloadedFiles)
  /\ saved = allDownloadedFiles \o downloadedFiles

\* a page of two rows is done: one row failed, the artifact of the other
\* was saved
C36_Witness ==
  /\ pc = "hasNext"
  /\ rowsOn[1] = 2
  /\ rowsSeen = 2
  /\ maxOrders = 0
  /\ totalDownloaded = 1
  /\ Len(saved) = 1

\* C39: hasNextPage() and getTotalPOCount() only read: they click nothing,
\* the list shows the page it showed, the page number and the state of the
\* navigation are as before, and so are the download counter and the list
\* of artifacts.
C39_QueriesReadOnly ==
  [][(GetTotalPOCount \/ CheckNextPage) =>
       /\ UNCHANGED <<uiPage, currentPage, navClicked, clicked, inflight>>
       /\ UNCHANGED <<totalDownloaded, allDownloadedFiles, saved>>]_vars

\* hasNextPage() was called after a page with a saved artifact and found a
\* next page: the list still shows page 1
C39_Witness ==
  /\ pc = "goNext"
  /\ hasNext
  /\ uiPage = 1
  /\ currentPage = 1
  /\ totalDownloaded = 1
  /\ Len(rowsOn) = 2

(***************************************************************************)
(* Claims about goToNextPage() (SpecGoNext).                               *)
(***************************************************************************)
\* C37: one call of goToNextPage() clicks a next-page control at most once:
\* after a click the call goes to no further control and returns what the
\* verification gives, true on a changed fingerprint and false after the
\* polls, of which there are at most 10.
C37_OneClickPerCall ==
  /\ [](gnClicks <= 1 /\ gnPolls <= 10)
  /\ [][gnClicks >= 1 => (gnSite' = gnSite /\ gnPhase' # "sites")]_vars
  /\ []((gnPhase = "returned" /\ gnClicks >= 1) =>
          /\ gnResult = "true" <=>
                (gnPoAfter # NullPO /\ gnPoAfter # gnPoBefore)
          /\ gnResult = "false" => gnPolls = 10)
  /\ []((gnPhase = "returned" /\ gnClicks = 0) => gnResult = "false")

\* the control of approach 2 was clicked, the fingerprint stayed the same
\* for 10 polls, and the call returned false with approaches 3 and 4
\* untried
C37_Witness ==
  /\ gnPhase = "returned"
  /\ gnResult = "false"
  /\ gnClicks = 1
  /\ Sites[gnSite] = 2
  /\ gnPolls = 10
  /\ gnPoBefore = FirstRowPO(1)
  /\ gnPoAfter = gnPoBefore

(***************************************************************************)
(* Claims about getTotalPOCount() (SpecTotalCount).                        *)
(***************************************************************************)
\* the total a text shows after the word "of", or -1
ShownTotal(toks) ==
  IF \E k \in 1..(Len(toks) - 1) : toks[k].k = "of" /\ toks[k + 1].k = "num"
  THEN LET k == CHOOSE k \in 1..(Len(toks) - 1) :
                  toks[k].k = "of" /\ toks[k + 1].k = "num"
       IN  ParseInt(toks[k + 1].d)
  ELSE -1

\* the selector gives a number: its element is visible and its text, which
\* can be read, shows a total
GivesNumber(c) == c.vis /\ ~c.throws /\ ~c.null /\ ShownTotal(c.toks) >= 0

C32_StopsAtThreshold ==
  /\ [](Len(rdWaits) <= 5 /\ \A k \in 1..Len(rdWaits) : rdWaits[k] = 5000)
  /\ [][rdWaits' # rdWaits => rdRowCount <= 10]_vars
  /\ [](Len(rdWaits) = 5 => rdPhase # "retry")

\* the rows of the collection in use that are not a header pseudo-row
DataRows ==
  IF rdRowSelector \in rdHeader /\ rdCounts[rdRowSelector] > 0
  THEN rdCounts[rdRowSelector] - 1
  ELSE rdCounts[rdRowSelector]

\* C33: when the collection in use starts with a header pseudo-row, that
\* row is left out whichever selector is in use: the rows start after it,
\* it is not counted, and the rows processed are the first
\* min(rows available, remaining) data rows.
C33_HeaderExcluded ==
  rdPhase = "done" =>
    /\ rdStartIndex =
         (IF rdRowSelector \in rdHeader /\ rdCounts[rdRowSelector] > 0
          THEN 1 ELSE 0)
    /\ rdRowCount = DataRows
    /\ rdTotalRows = (IF rdRemaining = Infinity \/ DataRows < rdRemaining
                      THEN DataRows ELSE rdRemaining)

(***************************************************************************)
(* Claims about the name of the merged file (SpecFilename).                *)
(***************************************************************************)
\* C34: every merged file is named prefix, '_', the time in whole seconds,
\* extension, and no two writes, of the same run or of different runs, go
\* to the same output path.
C34_UniqueOutputPath ==
  /\ \A a \in 1..Len(fnOutputs) :
       fnOutputs[a].path[2] =
         <<"filflo_flipkart_po", "_", fnOutputs[a].at \div 1000, ".xlsx">>
  /\ \A a, b \in 1..Len(fnOutputs) :
       a # b => fnOutputs[a].path # fnOutputs[b].path

(***************************************************************************)
(* Claims about the total of getTotalPOCount() (SpecTwin).                 *)
(***************************************************************************)
\* C38: two runs on the same pages, with the same limit and the same
\* failures, attempt the same rows, visit the same pages and return the
\* same artifacts whatever getTotalPOCount() returned in each.
C38_TotalNeverInfluences ==
  /\ twRuns # <<>> =>
       /\ twRuns[1].attempted = twRuns[2].attempted
       /\ twRuns[1].currentPage = twRuns[2].currentPage
       /\ twRuns[1].allDownloadedFiles = twRuns[2].allDownloadedFiles
       /\ twRuns[1].pc = twRuns[2].pc

C38_Witness ==
  /\ twRuns # <<>>
  /\ twTotals[1] = 0
  /\ twTotals[2] = 1
  /\ twRuns[1].pc = "done"
  /\ twRuns[1].currentPage > 1
  /\ Len(twRuns[1].attempted) > Len(twRuns[1].allDownloadedFiles)
  /\ Len(twRuns[2].allDownloadedFiles) > 1

====
